---- MODULE Spec2Model ----
(***************************************************************************)
(* A model of fuselog: the mutation interceptor (fuselog_core/src/lib.rs), *)
(* the socket server with its pruner and dictionary codec                  *)
(* (fuselog_core/src/socket.rs) and the applier                            *)
(* (fuselog_apply/src/main.rs).                                            *)
(*                                                                         *)
(* Paths are sequences of components: "./d/a" is <<".", "d", "a">>, the    *)
(* relative path "d/a" is <<"d", "a">> and the root "." is <<".">>.        *)
(***************************************************************************)
EXTENDS Integers, Sequences, FiniteSets, TLC

VARIABLES
    fs,         \* the backing directory: relative path -> file object
    inodes,     \* InodeManager: ino_to_path, path_to_ino, next_ino
    log,        \* STATEDIFF_LOG: fid_map, actions
    adaptive,   \* ADAPTIVE_STATE: training_buffer, encoder_dict
    env,        \* the process environment: the four policy toggles
    reply,      \* the reply of the last interceptor request
    sock,       \* the outcome of the last socket command
    sent,       \* history: the payloads written to the client, oldest first
    nops,       \* the requests and commands the run still has
    th,         \* worker threads of the driver, each inside a handler or idle
    inodesLock, \* the holder of FuseLogFS.inodes (0: free)
    logLock,    \* the holder of STATEDIFF_LOG (0: free)
    dictLock,   \* the holder of ADAPTIVE_STATE (0: free)
    hist,       \* history: whether every request succeeded, the socket commands
                \* served, the syscalls completed, the batches appended and
                \* the logs handed to the pruner
    proc,       \* the fuselog_core process: the position of main, the client
                \* connection, the position of the socket thread in a command
                \* and the payload it has still to write
    applier     \* the fuselog_apply process: its input, the dictionary cache
                \* file and the outcome of its run

vars == <<fs, inodes, log, adaptive, env, reply, sock, sent, nops,
          th, inodesLock, logLock, dictLock, hist, proc, applier>>

----------------------------------------------------------------------------
(* Bounds of the model and the input universe.                             *)

MaxOps == 2
MaxEpochOps == 5
MaxConcOps == 3
MaxDictOps == 4
MaxLogLen == 3
MaxPrunes == 2
MaxInoOps == 4
MaxTrainOps == 2
MaxApplyLen == 2
MaxApplies == 2
MaxMainOps == 2
MaxAgreeOps == 3
BigLen == 2048
WarmGets == 4
MaxOff == 1
MaxByte == 1

Names == {"a", "b"}
Ids == {0, 1}
ReqModes == {384}
Bytes == 1..MaxByte
Offsets == 0..MaxOff
Sizes == 0..MaxOff

\* Relative paths of the universe: one or two components.
CPaths == {<<n>> : n \in Names} \cup {<<n, m>> : n \in Names, m \in Names}

RootRel == <<>>
RootPath == <<".">>

None == "None"
\* Option::None of an integer argument (setattr's size, uid, gid).
Absent == -1

\* The process that creates an object owns it until it is chowned; a new
\* object gets 0o666 / 0o777 less the umask 0o022.
ProcUid == 0
ProcGid == 0
DefaultFileMode == 420
DefaultDirMode == 493

----------------------------------------------------------------------------
(* Finite maps (HashMap).                                                  *)

MapPut(m, k, v) == [x \in (DOMAIN m) \cup {k} |-> IF x = k THEN v ELSE m[x]]
MapDel(m, k) == [x \in (DOMAIN m) \ {k} |-> m[x]]
EmptyMap == [x \in {} |-> 0]

Max2(x, y) == IF x >= y THEN x ELSE y
Min2(x, y) == IF x <= y THEN x ELSE y

----------------------------------------------------------------------------
(* Paths.                                                                  *)

\* PathBuf::join
Join(path, name) == Append(path, name)

\* FuseLogFS::get_relative_path: strip_prefix("./"), else the path itself.
get_relative_path(path) ==
    IF Len(path) >= 1 /\ Head(path) = "." THEN Tail(path) ELSE path

\* Path::parent of a relative path.
ParentOf(p) == SubSeq(p, 1, Len(p) - 1)

IsPrefix(p, q) == Len(p) <= Len(q) /\ SubSeq(q, 1, Len(p)) = p

----------------------------------------------------------------------------
(* The backing file system, as the syscalls the code makes see it.  A file *)
(* object carries an id: two names with one id are hard links to one file. *)

FsExists(f, p) == p \in DOMAIN f
FsIsDir(f, p) == p \in DOMAIN f /\ f[p].kind = "dir"
FsIsFile(f, p) == p \in DOMAIN f /\ f[p].kind = "file"
FsChildren(f, p) == {q \in DOMAIN f : q # RootRel /\ ParentOf(q) = p}

NewId(f) ==
    CHOOSE i \in 1..(Cardinality(DOMAIN f) + 1) : \A p \in DOMAIN f : f[p].id # i

\* Every name of the file that p names gets the new attributes.
FsUpdate(f, p, field, val) ==
    [q \in DOMAIN f |->
        IF f[q].id = f[p].id THEN [f[q] EXCEPT ![field] = val] ELSE f[q]]

Ok(f) == [err |-> "OK", fs |-> f]
Fail(e, f) == [err |-> e, fs |-> f]

\* The error of naming an object that is not there: a path through a regular
\* file is ENOTDIR (ErrorKind::NotADirectory), any other is ENOENT (NotFound).
Missing(f, p) ==
    IF p # RootRel /\ FsIsFile(f, ParentOf(p)) THEN "ENOTDIR" ELSE "ENOENT"

\* The errors of creating a new name p.
ParentErr(f, p) ==
    IF p = RootRel THEN "EEXIST"
    ELSE IF ~FsExists(f, ParentOf(p)) THEN "ENOENT"
    ELSE IF ~FsIsDir(f, ParentOf(p)) THEN "ENOTDIR"
    ELSE "OK"

EmptyFs ==
    [p \in {RootRel} |->
        [kind |-> "dir", id |-> 0, data |-> <<>>, mode |-> DefaultDirMode,
         uid |-> ProcUid, gid |-> ProcGid]]

\* std::fs::create_dir
FsCreateDir(f, p) ==
    IF FsExists(f, p) THEN Fail("EEXIST", f)
    ELSE IF ParentErr(f, p) # "OK" THEN Fail(ParentErr(f, p), f)
    ELSE Ok(MapPut(f, p, [kind |-> "dir", id |-> NewId(f), data |-> <<>>,
                          mode |-> DefaultDirMode, uid |-> ProcUid, gid |-> ProcGid]))

\* std::fs::File::create: creates the file, or truncates the one there.
FsCreateFile(f, p) ==
    IF FsIsDir(f, p) THEN Fail("EISDIR", f)
    ELSE IF FsIsFile(f, p) THEN Ok(FsUpdate(f, p, "data", <<>>))
    ELSE IF ParentErr(f, p) # "OK" THEN Fail(ParentErr(f, p), f)
    ELSE Ok(MapPut(f, p, [kind |-> "file", id |-> NewId(f), data |-> <<>>,
                          mode |-> DefaultFileMode, uid |-> ProcUid, gid |-> ProcGid]))

\* std::fs::set_permissions
FsSetPermissions(f, p, mode) ==
    IF ~FsExists(f, p) THEN Fail(Missing(f, p), f) ELSE Ok(FsUpdate(f, p, "mode", mode))

\* std::os::unix::fs::chown / lchown (the model has no symlinks)
FsChown(f, p, uid, gid) ==
    IF ~FsExists(f, p) THEN Fail(Missing(f, p), f)
    ELSE Ok(FsUpdate(FsUpdate(f, p, "uid", uid), p, "gid", gid))

\* std::fs::remove_file
FsRemoveFile(f, p) ==
    IF ~FsExists(f, p) THEN Fail(Missing(f, p), f)
    ELSE IF FsIsDir(f, p) THEN Fail("EISDIR", f)
    ELSE Ok(MapDel(f, p))

\* std::fs::remove_dir
FsRemoveDir(f, p) ==
    IF ~FsExists(f, p) THEN Fail(Missing(f, p), f)
    ELSE IF ~FsIsDir(f, p) THEN Fail("ENOTDIR", f)
    ELSE IF p = RootRel THEN Fail("EINVAL", f)
    ELSE IF FsChildren(f, p) # {} THEN Fail("ENOTEMPTY", f)
    ELSE Ok(MapDel(f, p))

\* seek to offset and write_all(data): a hole is filled with zero bytes.
WriteAt(old, offset, data) ==
    LET n == Max2(Len(old), offset + Len(data))
    IN  [i \in 1..n |->
            IF i > offset /\ i <= offset + Len(data) THEN data[i - offset]
            ELSE IF i <= Len(old) THEN old[i]
            ELSE 0]

\* File::set_len
SetLen(old, size) == [i \in 1..size |-> IF i <= Len(old) THEN old[i] ELSE 0]

\* OpenOptions::new().write(true).open
FsOpenWriteErr(f, p) ==
    IF ~FsExists(f, p) THEN Missing(f, p)
    ELSE IF FsIsDir(f, p) THEN "EISDIR"
    ELSE "OK"

FsWrite(f, p, offset, data) ==
    IF FsOpenWriteErr(f, p) # "OK" THEN Fail(FsOpenWriteErr(f, p), f)
    ELSE Ok(FsUpdate(f, p, "data", WriteAt(f[p].data, offset, data)))

FsTruncate(f, p, size) ==
    IF FsOpenWriteErr(f, p) # "OK" THEN Fail(FsOpenWriteErr(f, p), f)
    ELSE Ok(FsUpdate(f, p, "data", SetLen(f[p].data, size)))

\* std::fs::rename
FsRename(f, from, to) ==
    IF ~FsExists(f, from) THEN Fail(Missing(f, from), f)
    ELSE IF from = RootRel \/ to = RootRel THEN Fail("EBUSY", f)
    ELSE IF ParentErr(f, to) # "OK" THEN Fail(ParentErr(f, to), f)
    ELSE IF from = to THEN Ok(f)
    ELSE IF IsPrefix(from, to) THEN Fail("EINVAL", f)
    ELSE IF FsExists(f, to) /\ f[to].id = f[from].id THEN Ok(f)
    ELSE IF FsIsDir(f, from) /\ FsIsFile(f, to) THEN Fail("ENOTDIR", f)
    ELSE IF FsIsFile(f, from) /\ FsIsDir(f, to) THEN Fail("EISDIR", f)
    ELSE IF FsIsDir(f, to) /\ FsChildren(f, to) # {} THEN Fail("ENOTEMPTY", f)
    ELSE LET moved == {q \in DOMAIN f : IsPrefix(from, q)}
             dest(q) == to \o SubSeq(q, Len(from) + 1, Len(q))
             kept == (DOMAIN f) \ (moved \cup {to})
         IN  Ok([q \in kept \cup {dest(m) : m \in moved} |->
                    IF q \in kept THEN f[q]
                    ELSE f[CHOOSE m \in moved : dest(m) = q]])

\* std::fs::hard_link
FsHardLink(f, src, dst) ==
    IF ~FsExists(f, src) THEN Fail(Missing(f, src), f)
    ELSE IF FsIsDir(f, src) THEN Fail("EPERM", f)
    ELSE IF FsExists(f, dst) THEN Fail("EEXIST", f)
    ELSE IF ParentErr(f, dst) # "OK" THEN Fail(ParentErr(f, dst), f)
    ELSE Ok(MapPut(f, dst, f[src]))

\* std::fs::create_dir_all
RECURSIVE FsCreateDirAll(_, _)
FsCreateDirAll(f, p) ==
    IF FsIsDir(f, p) THEN Ok(f)
    ELSE IF FsExists(f, p) THEN Fail("EEXIST", f)
    ELSE LET up == FsCreateDirAll(f, ParentOf(p))
         IN  IF up.err # "OK" THEN up ELSE FsCreateDir(up.fs, p)

\* What two trees are compared by: the objects at each path and the hard
\* links between paths.
TreeOf(f) ==
    [p \in DOMAIN f |->
        [kind |-> f[p].kind, data |-> f[p].data, mode |-> f[p].mode,
         uid |-> f[p].uid, gid |-> f[p].gid]]
LinksOf(f) == {pq \in (DOMAIN f) \X (DOMAIN f) : f[pq[1]].id = f[pq[2]].id}
SameTree(f, g) == TreeOf(f) = TreeOf(g) /\ LinksOf(f) = LinksOf(g)

----------------------------------------------------------------------------
(* InodeManager.                                                           *)

\* A variant of InodeManager::new whose counter starts at the root's number.
NewInodesFromOne ==
    [ino_to_path |-> [i \in {1} |-> <<".">>],
     path_to_ino |-> [p \in {<<".">>} |-> 1],
     next_ino |-> 1]

\* InodeManager::new
NewInodes ==
    [ino_to_path |-> [i \in {1} |-> RootPath],
     path_to_ino |-> [p \in {RootPath} |-> 1],
     next_ino |-> 2]

\* InodeManager::get_path
HasIno(im, ino) == ino \in DOMAIN im.ino_to_path
get_path(im, ino) == im.ino_to_path[ino]

\* InodeManager::get_or_create_ino: the inode and the manager after the call.
ino_of(im, path) ==
    IF path \in DOMAIN im.path_to_ino THEN im.path_to_ino[path] ELSE im.next_ino

get_or_create_ino(im, path) ==
    IF path \in DOMAIN im.path_to_ino THEN im
    ELSE [ino_to_path |-> MapPut(im.ino_to_path, im.next_ino, path),
          path_to_ino |-> MapPut(im.path_to_ino, path, im.next_ino),
          next_ino |-> im.next_ino + 1]

\* InodeManager::remove_path
remove_path(im, path) ==
    IF path \in DOMAIN im.path_to_ino
    THEN [im EXCEPT !.path_to_ino = MapDel(@, path),
                    !.ino_to_path = MapDel(@, im.path_to_ino[path])]
    ELSE im

\* FuseLogFS::rename, the update of the inode mapping after the syscall.
rename_ino(im, from_path, to_path) ==
    IF from_path \in DOMAIN im.path_to_ino
    THEN LET ino == im.path_to_ino[from_path]
             rm == remove_path(im, from_path)
         IN  [rm EXCEPT !.ino_to_path = MapPut(@, ino, to_path),
                        !.path_to_ino = MapPut(@, to_path, ino)]
    ELSE im

\* FuseLogFS::link, the update of the inode mapping after the syscall.
link_ino(im, dest_path, ino) == [im EXCEPT !.path_to_ino = MapPut(@, dest_path, ino)]

----------------------------------------------------------------------------
(* The log and FID interning.                                              *)

\* StateDiffLog::default
EmptyLog == [fid_map |-> EmptyMap, actions |-> <<>>]

\* get_fid: the FID of the path, and the log after the call.
fid_of(lg, path) ==
    IF \E f \in DOMAIN lg.fid_map : lg.fid_map[f] = path
    THEN CHOOSE f \in DOMAIN lg.fid_map : lg.fid_map[f] = path
    ELSE Cardinality(DOMAIN lg.fid_map) + 1

get_fid(lg, path) ==
    IF \E f \in DOMAIN lg.fid_map : lg.fid_map[f] = path
    THEN lg
    ELSE [lg EXCEPT !.fid_map = MapPut(@, Cardinality(DOMAIN lg.fid_map) + 1, path)]

\* The FIDs an action references (prune_log, the second pass).
action_fids(a) ==
    CASE a.type = "Rename" -> {a.from_fid, a.to_fid}
      [] a.type = "Link" -> {a.source_fid, a.new_link_fid}
      [] a.type = "Symlink" -> {a.link_fid}
      [] OTHER -> {a.fid}

\* An action of a batch names its paths by position; the FIDs are put in
\* when the batch is appended.
WithFids(a, fids) ==
    CASE a.type = "Rename" ->
            [type |-> "Rename", from_fid |-> fids[a.from_fid], to_fid |-> fids[a.to_fid]]
      [] a.type = "Link" ->
            [type |-> "Link", source_fid |-> fids[a.source_fid],
             new_link_fid |-> fids[a.new_link_fid]]
      [] OTHER -> [a EXCEPT !.fid = fids[a.fid]]

\* One acquisition of the log mutex by a handler: get_fid for each path of
\* the batch in order, then the pushes.
RECURSIVE InternAll(_, _)
InternAll(lg, paths) ==
    IF paths = <<>> THEN lg ELSE InternAll(get_fid(lg, Head(paths)), Tail(paths))

RECURSIVE FidsOf(_, _)
FidsOf(lg, paths) ==
    IF paths = <<>> THEN <<>>
    ELSE <<fid_of(lg, Head(paths))>> \o FidsOf(get_fid(lg, Head(paths)), Tail(paths))

PushAll(lg, acts) == [lg EXCEPT !.actions = @ \o acts]

AppendBatch(lg, b) ==
    LET fids == FidsOf(lg, b.paths)
    IN  PushAll(InternAll(lg, b.paths),
                [i \in 1..Len(b.acts) |-> WithFids(b.acts[i], fids)])

NoBatch == [paths |-> <<>>, acts |-> <<>>]

----------------------------------------------------------------------------
(* The interceptor's handlers.  A handler runs in phases: a phase makes    *)
(* the backing syscalls and updates the inode mapping, then appends one    *)
(* batch to the log under one acquisition of the log mutex.  Every handler *)
(* has one phase but setattr, which truncates and logs, then chowns and    *)
(* logs.  A phase yields the error (or "OK"), the backing directory and    *)
(* the inode mapping after it, the batch to append, whether it is the      *)
(* handler's last phase, and the inode of the reply.                       *)

\* A kernel request.  Fields a request does not use are 0.
\* order is the order in which read_dir yields the names of a directory.
Req(op, parent, name, newparent, newname, ino, mode, uid, gid, size, offset, data,
    chown_ok, order) ==
    [op |-> op, parent |-> parent, name |-> name, newparent |-> newparent,
     newname |-> newname, ino |-> ino, mode |-> mode, uid |-> uid, gid |-> gid,
     size |-> size, offset |-> offset, data |-> data, chown_ok |-> chown_ok,
     order |-> order]

\* The fields of a request that its handler does not read.
R0 == Req(None, 0, "", 0, "", 0, 0, 0, 0, 0, 0, <<>>, TRUE, <<>>)

Out(err, f, im, batch, last, ino) ==
    [err |-> err, fs |-> f, inodes |-> im, batch |-> batch, last |-> last, ino |-> ino]

Act1(type) == [type |-> type, fid |-> 1]
ChownAct(uid, gid) == [type |-> "Chown", fid |-> 1, uid |-> uid, gid |-> gid]

\* lib.rs: lookup
lookup(r, f, im) ==
    IF ~HasIno(im, r.parent) THEN Out("ENOENT", f, im, NoBatch, TRUE, 0)
    ELSE LET child_path == Join(get_path(im, r.parent), r.name)
         IN  IF FsExists(f, get_relative_path(child_path))
             THEN Out("OK", f, get_or_create_ino(im, child_path), NoBatch, TRUE,
                      ino_of(im, child_path))
             ELSE Out("ENOENT", f, im, NoBatch, TRUE, 0)

\* lib.rs: getattr
getattr(r, f, im) ==
    IF ~HasIno(im, r.ino) THEN Out("ENOENT", f, im, NoBatch, TRUE, 0)
    ELSE IF FsExists(f, get_relative_path(get_path(im, r.ino)))
         THEN Out("OK", f, im, NoBatch, TRUE, r.ino)
         ELSE Out("ENOENT", f, im, NoBatch, TRUE, 0)

\* lib.rs: readdir
readdir_entry_path(path, name) == IF path = RootPath THEN <<name>> ELSE Join(path, name)

RECURSIVE readdir_intern(_, _, _, _)
readdir_intern(im, f, path, order) ==
    IF order = <<>> THEN im
    ELSE LET next == IF FsExists(f, Append(get_relative_path(path), Head(order)))
                     THEN get_or_create_ino(im, readdir_entry_path(path, Head(order)))
                     ELSE im
         IN  readdir_intern(next, f, path, Tail(order))

readdir(r, f, im) ==
    IF ~HasIno(im, r.ino) THEN Out("ENOENT", f, im, NoBatch, TRUE, 0)
    ELSE LET path == get_path(im, r.ino)
         IN  IF FsIsDir(f, get_relative_path(path))
             THEN Out("OK", f, readdir_intern(im, f, path, r.order), NoBatch, TRUE, r.ino)
             ELSE Out("OK", f, im, NoBatch, TRUE, r.ino)

\* A variant of the file handle that numbers handles by inode.
reply_fh_by_inode(r, err, ino) ==
    IF r.op = "open" THEN r.ino
    ELSE IF r.op = "create" /\ err = "OK" THEN ino
    ELSE Absent

\* The file handle of a reply: reply.opened(0, 0) (line 320) carries the
\* handle 0 and reply.created(.., 0, ino, flags) (line 363) the new inode;
\* no other reply has one.
reply_fh(r, err, ino) ==
    IF r.op = "open" THEN 0
    ELSE IF r.op = "create" /\ err = "OK" THEN ino
    ELSE Absent

\* lib.rs: open, flush, release
open(r, f, im) == Out("OK", f, im, NoBatch, TRUE, r.ino)

\* lib.rs: read
read(r, f, im) ==
    IF ~HasIno(im, r.ino) THEN Out("ENOENT", f, im, NoBatch, TRUE, 0)
    ELSE LET p == get_relative_path(get_path(im, r.ino))
         IN  IF ~FsExists(f, p) THEN Out("ENOENT", f, im, NoBatch, TRUE, 0)
             ELSE IF FsIsDir(f, p) THEN Out("EISDIR", f, im, NoBatch, TRUE, 0)
             ELSE Out("OK", f, im, NoBatch, TRUE, r.ino)

\* A variant of mkdir that leaves the new directory in place when its chown
\* fails.
mkdir_without_rollback(r, f, im) ==
    IF ~HasIno(im, r.parent) THEN Out("ENOENT", f, im, NoBatch, TRUE, 0)
    ELSE LET dir_path == Join(get_path(im, r.parent), r.name)
             relative_path == get_relative_path(dir_path)
             made == FsCreateDir(f, relative_path)
         IN  IF FsExists(f, relative_path) THEN Out("EEXIST", f, im, NoBatch, TRUE, 0)
             ELSE IF made.err # "OK" THEN Out(made.err, f, im, NoBatch, TRUE, 0)
             ELSE IF ~r.chown_ok
                  THEN Out("EPERM", FsSetPermissions(made.fs, relative_path, r.mode).fs, im,
                           NoBatch, TRUE, 0)
             ELSE Out("OK",
                      FsChown(FsSetPermissions(made.fs, relative_path, r.mode).fs,
                              relative_path, r.uid, r.gid).fs,
                      get_or_create_ino(im, dir_path),
                      [paths |-> <<relative_path>>,
                       acts |-> <<Act1("Mkdir"), ChownAct(r.uid, r.gid)>>],
                      TRUE, ino_of(im, dir_path))

\* lib.rs: mkdir
mkdir(r, f, im) ==
    IF ~HasIno(im, r.parent) THEN Out("ENOENT", f, im, NoBatch, TRUE, 0)
    ELSE LET dir_path == Join(get_path(im, r.parent), r.name)
             relative_path == get_relative_path(dir_path)
             made == FsCreateDir(f, relative_path)
         IN  IF FsExists(f, relative_path) THEN Out("EEXIST", f, im, NoBatch, TRUE, 0)
             ELSE IF made.err # "OK" THEN Out(made.err, f, im, NoBatch, TRUE, 0)
             ELSE IF ~r.chown_ok
                  THEN Out("EPERM", FsRemoveDir(made.fs, relative_path).fs, im, NoBatch, TRUE, 0)
             ELSE Out("OK",
                      FsChown(FsSetPermissions(made.fs, relative_path, r.mode).fs,
                              relative_path, r.uid, r.gid).fs,
                      get_or_create_ino(im, dir_path),
                      [paths |-> <<relative_path>>,
                       acts |-> <<Act1("Mkdir"), ChownAct(r.uid, r.gid)>>],
                      TRUE, ino_of(im, dir_path))

\* A variant of rmdir that pushes its action whatever remove_dir returned.
rmdir_logging_failure(r, f, im) ==
    IF ~HasIno(im, r.parent) THEN Out("ENOENT", f, im, NoBatch, TRUE, 0)
    ELSE LET dir_path == Join(get_path(im, r.parent), r.name)
             relative_path == get_relative_path(dir_path)
             gone == FsRemoveDir(f, relative_path)
             pushed == [paths |-> <<relative_path>>, acts |-> <<Act1("Rmdir")>>]
         IN  IF gone.err # "OK" THEN Out(gone.err, f, im, pushed, TRUE, 0)
             ELSE Out("OK", gone.fs, remove_path(im, dir_path), pushed, TRUE, 0)

\* lib.rs: rmdir
rmdir(r, f, im) ==
    IF ~HasIno(im, r.parent) THEN Out("ENOENT", f, im, NoBatch, TRUE, 0)
    ELSE LET dir_path == Join(get_path(im, r.parent), r.name)
             relative_path == get_relative_path(dir_path)
             gone == FsRemoveDir(f, relative_path)
         IN  IF gone.err # "OK" THEN Out(gone.err, f, im, NoBatch, TRUE, 0)
             ELSE Out("OK", gone.fs, remove_path(im, dir_path),
                      [paths |-> <<relative_path>>, acts |-> <<Act1("Rmdir")>>], TRUE, 0)

\* lib.rs: create
create(r, f, im) ==
    IF ~HasIno(im, r.parent) THEN Out("ENOENT", f, im, NoBatch, TRUE, 0)
    ELSE LET file_path == Join(get_path(im, r.parent), r.name)
             relative_path == get_relative_path(file_path)
             made == FsCreateFile(f, relative_path)
         IN  IF made.err # "OK" THEN Out(made.err, f, im, NoBatch, TRUE, 0)
             ELSE IF ~r.chown_ok
                  THEN Out("EPERM", FsRemoveFile(made.fs, relative_path).fs, im, NoBatch, TRUE, 0)
             ELSE Out("OK",
                      FsChown(FsSetPermissions(made.fs, relative_path, r.mode).fs,
                              relative_path, r.uid, r.gid).fs,
                      get_or_create_ino(im, file_path),
                      [paths |-> <<relative_path>>, acts |-> <<ChownAct(r.uid, r.gid)>>],
                      TRUE, ino_of(im, file_path))

\* lib.rs: write
write(r, f, im) ==
    IF ~HasIno(im, r.ino) THEN Out("ENOENT", f, im, NoBatch, TRUE, 0)
    ELSE LET path == get_path(im, r.ino)
             relative_path == get_relative_path(path)
             done == FsWrite(f, relative_path, r.offset, r.data)
         IN  IF done.err # "OK" THEN Out(done.err, f, im, NoBatch, TRUE, 0)
             ELSE Out("OK", done.fs, im,
                      [paths |-> <<relative_path>>,
                       acts |-> <<[type |-> "Write", fid |-> 1, offset |-> r.offset,
                                   data |-> r.data]>>],
                      TRUE, r.ino)

\* lib.rs: unlink
unlink(r, f, im) ==
    IF ~HasIno(im, r.parent) THEN Out("ENOENT", f, im, NoBatch, TRUE, 0)
    ELSE LET file_path == Join(get_path(im, r.parent), r.name)
             relative_path == get_relative_path(file_path)
             gone == FsRemoveFile(f, relative_path)
         IN  IF gone.err # "OK" THEN Out(gone.err, f, im, NoBatch, TRUE, 0)
             ELSE Out("OK", gone.fs, remove_path(im, file_path),
                      [paths |-> <<relative_path>>, acts |-> <<Act1("Unlink")>>], TRUE, 0)

\* lib.rs: setattr, the truncate (lines 496-513).  The mode is not applied.
setattr_truncate(r, f, im) ==
    IF ~HasIno(im, r.ino) THEN Out("ENOENT", f, im, NoBatch, TRUE, 0)
    ELSE LET relative_path == get_relative_path(get_path(im, r.ino))
             cut == FsTruncate(f, relative_path, r.size)
         IN  IF r.size = Absent THEN Out("OK", f, im, NoBatch, FALSE, r.ino)
             ELSE IF cut.err # "OK" THEN Out(cut.err, f, im, NoBatch, TRUE, 0)
             ELSE Out("OK", cut.fs, im,
                      [paths |-> <<relative_path>>,
                       acts |-> <<[type |-> "Truncate", fid |-> 1, size |-> r.size]>>],
                      FALSE, r.ino)

\* lib.rs: setattr, the chown and the reply (lines 518-550).
setattr_chown(r, f, im) ==
    LET relative_path == get_relative_path(get_path(im, r.ino))
        final_uid == IF r.uid = Absent THEN f[relative_path].uid ELSE r.uid
        final_gid == IF r.gid = Absent THEN f[relative_path].gid ELSE r.gid
    IN  IF ~FsExists(f, relative_path) THEN Out("ENOENT", f, im, NoBatch, TRUE, 0)
        ELSE IF r.uid = Absent /\ r.gid = Absent THEN Out("OK", f, im, NoBatch, TRUE, r.ino)
        ELSE IF ~r.chown_ok THEN Out("EPERM", f, im, NoBatch, TRUE, 0)
        ELSE Out("OK", FsChown(f, relative_path, final_uid, final_gid).fs, im,
                 [paths |-> <<relative_path>>, acts |-> <<ChownAct(final_uid, final_gid)>>],
                 TRUE, r.ino)

\* lib.rs: rename
rename(r, f, im) ==
    IF ~HasIno(im, r.parent) \/ ~HasIno(im, r.newparent)
    THEN Out("ENOENT", f, im, NoBatch, TRUE, 0)
    ELSE LET from_path == Join(get_path(im, r.parent), r.name)
             to_path == Join(get_path(im, r.newparent), r.newname)
             moved == FsRename(f, get_relative_path(from_path), get_relative_path(to_path))
         IN  IF moved.err # "OK" THEN Out(moved.err, f, im, NoBatch, TRUE, 0)
             ELSE Out("OK", moved.fs, rename_ino(im, from_path, to_path),
                      [paths |-> <<get_relative_path(from_path), get_relative_path(to_path)>>,
                       acts |-> <<[type |-> "Rename", from_fid |-> 1, to_fid |-> 2]>>],
                      TRUE, 0)

\* lib.rs: link
link(r, f, im) ==
    IF ~HasIno(im, r.ino) \/ ~HasIno(im, r.newparent)
    THEN Out("ENOENT", f, im, NoBatch, TRUE, 0)
    ELSE LET source_path == get_path(im, r.ino)
             dest_path == Join(get_path(im, r.newparent), r.newname)
             linked == FsHardLink(f, get_relative_path(source_path),
                                  get_relative_path(dest_path))
         IN  IF linked.err # "OK" THEN Out(linked.err, f, im, NoBatch, TRUE, 0)
             ELSE Out("OK", linked.fs, link_ino(im, dest_path, r.ino),
                      [paths |-> <<get_relative_path(source_path),
                                   get_relative_path(dest_path)>>,
                       acts |-> <<[type |-> "Link", source_fid |-> 1, new_link_fid |-> 2]>>],
                      TRUE, r.ino)

\* Phase k of the handler of request r: what it does between two
\* acquisitions of the log mutex.
Phase(r, k, f, im) ==
    CASE r.op = "lookup" -> lookup(r, f, im)
      [] r.op = "getattr" -> getattr(r, f, im)
      [] r.op = "readdir" -> readdir(r, f, im)
      [] r.op = "read" -> read(r, f, im)
      [] r.op = "mkdir" -> mkdir(r, f, im)
      [] r.op = "rmdir" -> rmdir(r, f, im)
      [] r.op = "create" -> create(r, f, im)
      [] r.op = "write" -> write(r, f, im)
      [] r.op = "unlink" -> unlink(r, f, im)
      [] r.op = "setattr" /\ k = 1 -> setattr_truncate(r, f, im)
      [] r.op = "setattr" /\ k = 2 -> setattr_chown(r, f, im)
      [] r.op = "rename" -> rename(r, f, im)
      [] r.op = "link" -> link(r, f, im)
      [] OTHER -> open(r, f, im)

\* The log after a phase: the batch it pushed, if any, is appended.
Logged(lg, p) == IF p.batch # NoBatch THEN AppendBatch(lg, p.batch) ELSE lg

\* A handler of one phase, with no other thread in between.
Run1(p, lg) ==
    [err |-> p.err, fs |-> p.fs, inodes |-> p.inodes, log |-> Logged(lg, p),
     ino |-> IF p.err = "OK" THEN p.ino ELSE 0]

\* setattr, with no other thread in between: the second phase runs when
\* the first succeeded, on what the first left.
Run2(p1, p2, lg) ==
    IF p1.err # "OK" THEN Run1(p1, lg) ELSE Run1(p2, Logged(lg, p1))

----------------------------------------------------------------------------
(* prune_log (socket.rs).                                                  *)

\* A variant of the first pass in which a newer Chmod or Chown drops the
\* slot seen before it and the index kept is still that of the older one.
PruneStepStaleIndex(ps, a, i) ==
    CASE a.type \in {"Create", "Mkdir"} -> [ps EXCEPT !.created = @ \cup {a.fid}]
      [] a.type = "Symlink" -> [ps EXCEPT !.created = @ \cup {a.link_fid}]
      [] a.type = "Chmod" ->
            IF a.fid \in DOMAIN ps.last_chmod_idx
            THEN [ps EXCEPT !.dropped = @ \cup {ps.last_chmod_idx[a.fid]}]
            ELSE [ps EXCEPT !.last_chmod_idx = MapPut(@, a.fid, i)]
      [] a.type = "Chown" ->
            IF a.fid \in DOMAIN ps.last_chown_idx
            THEN [ps EXCEPT !.dropped = @ \cup {ps.last_chown_idx[a.fid]}]
            ELSE [ps EXCEPT !.last_chown_idx = MapPut(@, a.fid, i)]
      [] a.type \in {"Unlink", "Rmdir"} ->
            [ps EXCEPT !.fids_to_purge = IF a.fid \in ps.created THEN @ \cup {a.fid} ELSE @]
      [] OTHER -> ps

\* A variant of the first pass in which a newer Chmod or Chown is itself
\* dropped and the older one stays.
PruneStepKeepFirst(ps, a, i) ==
    CASE a.type \in {"Create", "Mkdir"} -> [ps EXCEPT !.created = @ \cup {a.fid}]
      [] a.type = "Symlink" -> [ps EXCEPT !.created = @ \cup {a.link_fid}]
      [] a.type = "Chmod" ->
            IF a.fid \in DOMAIN ps.last_chmod_idx
            THEN [ps EXCEPT !.dropped = @ \cup {i}]
            ELSE [ps EXCEPT !.last_chmod_idx = MapPut(@, a.fid, i)]
      [] a.type = "Chown" ->
            IF a.fid \in DOMAIN ps.last_chown_idx
            THEN [ps EXCEPT !.dropped = @ \cup {i}]
            ELSE [ps EXCEPT !.last_chown_idx = MapPut(@, a.fid, i)]
      [] a.type \in {"Unlink", "Rmdir"} ->
            [ps EXCEPT !.fids_to_purge = IF a.fid \in ps.created THEN @ \cup {a.fid} ELSE @]
      [] OTHER -> ps

\* A variant of the first pass that drops every Truncate.
PruneStepDroppingTruncate(ps, a, i) ==
    CASE a.type \in {"Create", "Mkdir"} -> [ps EXCEPT !.created = @ \cup {a.fid}]
      [] a.type = "Symlink" -> [ps EXCEPT !.created = @ \cup {a.link_fid}]
      [] a.type = "Truncate" -> [ps EXCEPT !.dropped = @ \cup {i}]
      [] a.type = "Chmod" ->
            [ps EXCEPT !.last_chmod_idx = MapPut(@, a.fid, i),
                       !.dropped = IF a.fid \in DOMAIN ps.last_chmod_idx
                                   THEN @ \cup {ps.last_chmod_idx[a.fid]} ELSE @]
      [] a.type = "Chown" ->
            [ps EXCEPT !.last_chown_idx = MapPut(@, a.fid, i),
                       !.dropped = IF a.fid \in DOMAIN ps.last_chown_idx
                                   THEN @ \cup {ps.last_chown_idx[a.fid]} ELSE @]
      [] a.type \in {"Unlink", "Rmdir"} ->
            [ps EXCEPT !.fids_to_purge = IF a.fid \in ps.created THEN @ \cup {a.fid} ELSE @]
      [] OTHER -> ps

\* The first pass at index i.  ps holds the slots set to None (dropped), the
\* last Chmod and Chown index of each FID, the FIDs with a creation_idx and
\* fids_to_purge.
PruneStep(ps, a, i) ==
    CASE a.type \in {"Create", "Mkdir"} -> [ps EXCEPT !.created = @ \cup {a.fid}]
      [] a.type = "Symlink" -> [ps EXCEPT !.created = @ \cup {a.link_fid}]
      [] a.type = "Chmod" ->
            [ps EXCEPT !.last_chmod_idx = MapPut(@, a.fid, i),
                       !.dropped = IF a.fid \in DOMAIN ps.last_chmod_idx
                                   THEN @ \cup {ps.last_chmod_idx[a.fid]} ELSE @]
      [] a.type = "Chown" ->
            [ps EXCEPT !.last_chown_idx = MapPut(@, a.fid, i),
                       !.dropped = IF a.fid \in DOMAIN ps.last_chown_idx
                                   THEN @ \cup {ps.last_chown_idx[a.fid]} ELSE @]
      [] a.type \in {"Unlink", "Rmdir"} ->
            [ps EXCEPT !.fids_to_purge = IF a.fid \in ps.created THEN @ \cup {a.fid} ELSE @]
      [] OTHER -> ps

RECURSIVE PrunePass1(_, _, _)
PrunePass1(actions, i, ps) ==
    IF i > Len(actions) THEN ps
    ELSE PrunePass1(actions, i + 1, PruneStep(ps, actions[i], i))

PruneInit ==
    [dropped |-> {}, last_chmod_idx |-> EmptyMap, last_chown_idx |-> EmptyMap,
     created |-> {}, fids_to_purge |-> {}]

\* A variant of the second pass that collects the survivors newest first.
RECURSIVE PrunePass2NewestFirst(_, _, _)
PrunePass2NewestFirst(actions, i, ps) ==
    IF i > Len(actions) THEN <<>>
    ELSE IF i \in ps.dropped \/ action_fids(actions[i]) \cap ps.fids_to_purge # {}
         THEN PrunePass2NewestFirst(actions, i + 1, ps)
         ELSE PrunePass2NewestFirst(actions, i + 1, ps) \o <<actions[i]>>

\* The second pass: the slots still Some whose FIDs are not purged, in order.
RECURSIVE PrunePass2(_, _, _)
PrunePass2(actions, i, ps) ==
    IF i > Len(actions) THEN <<>>
    ELSE IF i \in ps.dropped \/ action_fids(actions[i]) \cap ps.fids_to_purge # {}
         THEN PrunePass2(actions, i + 1, ps)
         ELSE <<actions[i]>> \o PrunePass2(actions, i + 1, ps)

prune_log(lg) ==
    IF lg.actions = <<>> THEN lg
    ELSE LET ps == PrunePass1(lg.actions, 1, PruneInit)
             final_actions == PrunePass2(lg.actions, 1, ps)
             used_fids == UNION {action_fids(final_actions[i]) : i \in 1..Len(final_actions)}
         IN  [fid_map |-> [fid \in (DOMAIN lg.fid_map) \cap used_fids |-> lg.fid_map[fid]],
              actions |-> final_actions]

----------------------------------------------------------------------------
(* The applier (fuselog_apply/src/main.rs).                                *)

\* get_full_path: the FID must be in the log's table.
KnownFids(lg, a) == action_fids(a) \subseteq DOMAIN lg.fid_map

\* create_dir_all(full_path.parent())
MkParents(f, p) == IF p = RootRel THEN Ok(f) ELSE FsCreateDirAll(f, ParentOf(p))

\* OpenOptions::new().write(true).create(true).open
FsOpenCreate(f, p) ==
    IF FsIsDir(f, p) THEN Fail("EISDIR", f)
    ELSE IF FsExists(f, p) THEN Ok(f)
    ELSE IF ParentErr(f, p) # "OK" THEN Fail(ParentErr(f, p), f)
    ELSE Ok(MapPut(f, p, [kind |-> "file", id |-> NewId(f), data |-> <<>>,
                          mode |-> DefaultFileMode, uid |-> ProcUid, gid |-> ProcGid]))

\* std::os::unix::fs::symlink
FsSymlink(f, p, target) ==
    IF FsExists(f, p) THEN Fail("EEXIST", f)
    ELSE IF ParentErr(f, p) # "OK" THEN Fail(ParentErr(f, p), f)
    ELSE Ok(MapPut(f, p, [kind |-> "symlink", id |-> NewId(f), data |-> target,
                          mode |-> 511, uid |-> ProcUid, gid |-> ProcGid]))

\* f then g, g only when f succeeded.
Then(r, G(_)) == IF r.err # "OK" THEN r ELSE G(r.fs)

\* A NotFound error is a warning for the actions that tolerate it.
Tolerate(r, f) == IF r.err = "ENOENT" THEN Ok(f) ELSE r

apply_create(f, p, a) ==
    LET G1(x) == FsCreateFile(x, p)
        G2(x) == FsSetPermissions(x, p, a.mode)
        G3(x) == FsChown(x, p, a.uid, a.gid)
    IN  Then(Then(Then(MkParents(f, p), G1), G2), G3)

apply_write(f, p, a) ==
    LET G1(x) == FsOpenCreate(x, p)
        G2(x) == FsWrite(x, p, a.offset, a.data)
    IN  Then(Then(MkParents(f, p), G1), G2)

apply_unlink(f, p) == Tolerate(FsRemoveFile(f, p), f)

apply_truncate(f, p, a) ==
    LET G1(x) == FsOpenCreate(x, p)
        G2(x) == FsTruncate(x, p, a.size)
    IN  Then(Then(MkParents(f, p), G1), G2)

apply_rename(f, from, to) ==
    LET G1(x) == FsRename(x, from, to)
    IN  Then(MkParents(f, to), G1)

apply_link(f, src, dst) ==
    LET G1(x) == FsHardLink(x, src, dst)
    IN  Then(MkParents(f, dst), G1)

apply_chown(f, p, a) == Tolerate(FsChown(f, p, a.uid, a.gid), f)

apply_chmod(f, p, a) == Tolerate(FsSetPermissions(f, p, a.mode), f)

apply_mkdir(f, p) == FsCreateDirAll(f, p)

apply_rmdir(f, p) == Tolerate(FsRemoveDir(f, p), f)

apply_symlink(f, p, a) ==
    LET G1(x) == FsSymlink(x, p, a.target_path)
        G2(x) == FsChown(x, p, a.uid, a.gid)
    IN  Then(Then(MkParents(f, p), G1), G2)

\* main.rs, one iteration of the loop over log.actions.
apply_action(lg, f, a) ==
    IF ~KnownFids(lg, a) THEN Fail("Unknown file ID", f)
    ELSE CASE a.type = "Create" -> apply_create(f, lg.fid_map[a.fid], a)
           [] a.type = "Write" -> apply_write(f, lg.fid_map[a.fid], a)
           [] a.type = "Unlink" -> apply_unlink(f, lg.fid_map[a.fid])
           [] a.type = "Truncate" -> apply_truncate(f, lg.fid_map[a.fid], a)
           [] a.type = "Rename" ->
                apply_rename(f, lg.fid_map[a.from_fid], lg.fid_map[a.to_fid])
           [] a.type = "Link" ->
                apply_link(f, lg.fid_map[a.source_fid], lg.fid_map[a.new_link_fid])
           [] a.type = "Chown" -> apply_chown(f, lg.fid_map[a.fid], a)
           [] a.type = "Chmod" -> apply_chmod(f, lg.fid_map[a.fid], a)
           [] a.type = "Mkdir" -> apply_mkdir(f, lg.fid_map[a.fid])
           [] a.type = "Rmdir" -> apply_rmdir(f, lg.fid_map[a.fid])
           [] a.type = "Symlink" -> apply_symlink(f, lg.fid_map[a.link_fid], a)

\* A variant of the loop that passes over an action with an unknown FID.
RECURSIVE apply_from_skipping_unknown(_, _, _)
apply_from_skipping_unknown(lg, f, i) ==
    IF i > Len(lg.actions) THEN [err |-> "OK", fs |-> f, applied |-> i - 1]
    ELSE LET r == apply_action(lg, f, lg.actions[i])
         IN  IF r.err = "Unknown file ID" THEN apply_from_skipping_unknown(lg, f, i + 1)
             ELSE IF r.err # "OK" THEN [err |-> r.err, fs |-> r.fs, applied |-> i - 1]
             ELSE apply_from_skipping_unknown(lg, r.fs, i + 1)

\* main.rs, the loop: the actions in order, aborting at the first error.
\* Yields the error (or "OK"), the target after it and the actions applied.
RECURSIVE apply_from(_, _, _)
apply_from(lg, f, i) ==
    IF i > Len(lg.actions) THEN [err |-> "OK", fs |-> f, applied |-> i - 1]
    ELSE LET r == apply_action(lg, f, lg.actions[i])
         IN  IF r.err # "OK" THEN [err |-> r.err, fs |-> r.fs, applied |-> i - 1]
             ELSE apply_from(lg, r.fs, i + 1)

apply_log(lg, target) == apply_from(lg, target, 1)

----------------------------------------------------------------------------
(* The wire form of a log (bincode, config::standard).                     *)

\* A varint-encoded unsigned integer takes 1, 3, 5 or 9 bytes; no number of
\* the model reaches 2^32, where the 9-byte form starts.
VarintLen(n) == IF n < 251 THEN 1 ELSE IF n < 65536 THEN 3 ELSE 5

\* The length of a relative path as a string: one-character names joined by "/".
StrLen(p) == IF p = <<>> THEN 0 ELSE 2 * Len(p) - 1

BytesLen(data) == VarintLen(Len(data)) + Len(data)

\* The variant tag and the fields of an action.
ActionLen(a) ==
    1 + CASE a.type = "Write" -> VarintLen(a.fid) + VarintLen(a.offset) + BytesLen(a.data)
          [] a.type = "Truncate" -> VarintLen(a.fid) + VarintLen(a.size)
          [] a.type = "Rename" -> VarintLen(a.from_fid) + VarintLen(a.to_fid)
          [] a.type = "Link" -> VarintLen(a.source_fid) + VarintLen(a.new_link_fid)
          [] a.type = "Chown" -> VarintLen(a.fid) + VarintLen(a.uid) + VarintLen(a.gid)
          [] a.type = "Chmod" -> VarintLen(a.fid) + VarintLen(a.mode)
          [] a.type = "Create" ->
                VarintLen(a.fid) + VarintLen(a.uid) + VarintLen(a.gid) + VarintLen(a.mode)
          [] a.type = "Symlink" ->
                VarintLen(a.link_fid) + BytesLen(a.target_path) + VarintLen(a.uid)
                + VarintLen(a.gid)
          [] OTHER -> VarintLen(a.fid)

EntryLen(lg, fid) ==
    VarintLen(fid) + VarintLen(StrLen(lg.fid_map[fid])) + StrLen(lg.fid_map[fid])

RECURSIVE EntriesLen(_, _)
EntriesLen(lg, S) ==
    IF S = {} THEN 0
    ELSE LET fid == CHOOSE x \in S : TRUE
         IN  EntryLen(lg, fid) + EntriesLen(lg, S \ {fid})

RECURSIVE ActionsLen(_, _)
ActionsLen(actions, i) ==
    IF i > Len(actions) THEN 0 ELSE ActionLen(actions[i]) + ActionsLen(actions, i + 1)

\* bincode::encode_to_vec(&log): the table as a list of entries, then the
\* actions; len is the number of bytes.
bincode_encode(lg) ==
        [entries |-> {<<fid, lg.fid_map[fid]>> : fid \in DOMAIN lg.fid_map},
         actions |-> lg.actions,
         len |-> VarintLen(Cardinality(DOMAIN lg.fid_map))
                 + EntriesLen(lg, DOMAIN lg.fid_map)
                 + VarintLen(Len(lg.actions))
                 + ActionsLen(lg.actions, 1)]

\* bincode::decode_from_slice
bincode_decode(d) ==
    [fid_map |-> [fid \in {e[1] : e \in d.entries} |->
                    (CHOOSE e \in d.entries : e[1] = fid)[2]],
     actions |-> d.actions]

----------------------------------------------------------------------------
(* The socket server (socket.rs).                                          *)

\* trigger_retraining: the thresholds and the buffer limits.
DEV_MIN_SAMPLES == 5
DEV_MIN_TOTAL_BYTES == 2048
DEV_MIN_BYTES_PER_SAMPLE == 50
PROD_MIN_SAMPLES == 50
PROD_MIN_TOTAL_BYTES == 102400
PROD_MIN_BYTES_PER_SAMPLE == 500
DEV_MAX_BUFFER_SAMPLES == 20
PROD_MAX_BUFFER_SAMPLES == 200

\* AdaptiveState::default.  trainings counts the dictionaries trained so
\* far; a dictionary is identified by its number.
\* encoder_dict: None is the dictionary with id 0.
NoDict == [id |-> 0, size |-> 0]
NewAdaptive == [training_buffer |-> <<>>, encoder_dict |-> NoDict, trainings |-> 0]

\* Arc::strong_count(&dict) in send_statediff: the handle ADAPTIVE_STATE
\* holds and the clone send_statediff took.  No other code clones it.
strong_count == 1 + 1

\* A variant of the test of line 359 that counts one more handle.
attach_when_three == strong_count = 3

\* send_statediff line 359: the dictionary goes with the payload.
attach_dictionary == strong_count = 2

\* zstd: a compressed body remembers what it was compressed with.
Zstd(data, dict) == [codec |-> "zstd", dict |-> dict, data |-> data]
Raw(data) == [codec |-> "raw", dict |-> 0, data |-> data]

NoPayload == [header |-> None, dict |-> NoDict, body |-> Raw(bincode_encode(EmptyLog))]
NoReply == [op |-> None, err |-> None, ino |-> 0, fh |-> Absent, req |-> R0]
NoSock == [cmd |-> None, err |-> None, prefix |-> <<>>, payload |-> NoPayload]

\* A variant of the length prefix with the high byte first.
RECURSIVE to_be_bytes(_, _)
to_be_bytes(n, width) ==
    IF width = 0 THEN <<>> ELSE to_be_bytes(n \div 256, width - 1) \o <<n % 256>>

\* u64::to_le_bytes, u32::to_le_bytes: width bytes, the low byte first.
RECURSIVE to_le_bytes(_, _)
to_le_bytes(n, width) ==
    IF width = 0 THEN <<>> ELSE <<n % 256>> \o to_le_bytes(n \div 256, width - 1)

\* u64::from_le_bytes of get_diff.rs, for the lengths below 2^24 that the
\* model has; -1 stands for every length above.
from_le_bytes(b) ==
    IF \E j \in 4..Len(b) : b[j] # 0 THEN -1
    ELSE b[1] + 256 * b[2] + 65536 * b[3]

\* The length of a zstd frame that holds n bytes in one raw block: the
\* magic number, the frame header and the block header, then the bytes.
ZstdLen(n) == 4 + 2 + 3 + n

BodyLen(body) == IF body.codec = "zstd" THEN ZstdLen(body.data.len) ELSE body.data.len

\* serialized_data.len(): the header byte and the body; with a dictionary,
\* the header d, the 4-byte length of the dictionary and the dictionary
\* before them (send_statediff lines 361-366).
payload_len(payload) ==
    IF payload.header = "d" THEN 1 + 4 + payload.dict.size + 1 + BodyLen(payload.body)
    ELSE 1 + BodyLen(payload.body)

\* send_statediff line 412: the first write.
length_prefix(payload) == to_le_bytes(payload_len(payload), 8)

\* send_statediff lines 341-398: the payload for the serialised log, and
\* the adaptive state after it.  A compression that fails yields no payload.
final_payload(bincode_data, ad, e, compress_ok) ==
    IF e.compression /\ bincode_data.len # 0
    THEN IF e.adaptive
         THEN LET ad2 == [ad EXCEPT !.training_buffer = Append(@, bincode_data)]
                  dict == ad.encoder_dict
              IN  IF ~compress_ok THEN [err |-> "ERR", adaptive |-> ad2, payload |-> NoPayload]
                  ELSE IF dict # NoDict
                  THEN IF attach_dictionary
                       THEN [err |-> "OK", adaptive |-> ad2,
                             payload |-> [header |-> "d", dict |-> dict,
                                          body |-> Zstd(bincode_data, dict.id)]]
                       ELSE [err |-> "OK", adaptive |-> ad2,
                             payload |-> [header |-> "z", dict |-> NoDict,
                                          body |-> Zstd(bincode_data, dict.id)]]
                  ELSE [err |-> "OK", adaptive |-> ad2,
                        payload |-> [header |-> "z", dict |-> NoDict,
                                     body |-> Zstd(bincode_data, 0)]]
         ELSE IF ~compress_ok THEN [err |-> "ERR", adaptive |-> ad, payload |-> NoPayload]
              ELSE [err |-> "OK", adaptive |-> ad,
                    payload |-> [header |-> "z", dict |-> NoDict,
                                 body |-> Zstd(bincode_data, 0)]]
    ELSE [err |-> "OK", adaptive |-> ad,
          payload |-> [header |-> "n", dict |-> NoDict, body |-> Raw(bincode_data)]]

\* A variant of the clearing that leaves the FID table.
clear_actions_only(lg) == [lg EXCEPT !.actions = <<>>]

\* clear_statediff lines 430-431, send_statediff lines 402-403
clear_log(lg) == [fid_map |-> EmptyMap, actions |-> <<>>]

\* A variant of the critical section that leaves the clearing for after
\* the writes.
serialize_keeping_log(lg, ad, e, compress_ok) ==
    LET pruned == IF e.prune THEN prune_log(lg) ELSE lg
        out == final_payload(bincode_encode(pruned), ad, e, compress_ok)
    IN  [err |-> out.err, adaptive |-> out.adaptive, payload |-> out.payload,
         log |-> pruned]

\* send_statediff, the critical section (lines 310-409): the log and the
\* adaptive state after it, and the payload to write.
serialize(lg, ad, e, compress_ok) ==
    LET pruned == IF e.prune THEN prune_log(lg) ELSE lg
        out == final_payload(bincode_encode(pruned), ad, e, compress_ok)
    IN  [err |-> out.err, adaptive |-> out.adaptive, payload |-> out.payload,
         log |-> IF out.err = "OK" THEN clear_log(pruned) ELSE pruned]

\* What the history keeps of a payload written to the client.
Summary(payload) ==
    [header |-> payload.header,
     dict |-> payload.dict.id,
     zdict |-> payload.body.dict]

\* trigger_retraining: the adaptive state after a `t` command.  train_ok is
\* whether zstd::dict::from_samples succeeds.
RECURSIVE TotalBytes(_)
TotalBytes(buffer) ==
    IF buffer = <<>> THEN 0 ELSE Head(buffer).len + TotalBytes(Tail(buffer))

min_samples(e) == IF e.dev_mode THEN DEV_MIN_SAMPLES ELSE PROD_MIN_SAMPLES
min_total_bytes(e) == IF e.dev_mode THEN DEV_MIN_TOTAL_BYTES ELSE PROD_MIN_TOTAL_BYTES
min_bytes_per_sample(e) ==
    IF e.dev_mode THEN DEV_MIN_BYTES_PER_SAMPLE ELSE PROD_MIN_BYTES_PER_SAMPLE
max_buffer_samples(e) ==
    IF e.dev_mode THEN DEV_MAX_BUFFER_SAMPLES ELSE PROD_MAX_BUFFER_SAMPLES

dict_size(e, total_bytes) ==
    IF e.dev_mode THEN Max2(Min2(8 * 1024, total_bytes \div 2), 512)
    ELSE Max2(Min2(Min2(64 * 1024, total_bytes \div 100), total_bytes \div 10), 1024)

\* A variant of the preconditions without the test of the average sample.
can_train_without_average(ad, e) ==
    /\ ad.training_buffer # <<>>
    /\ Len(ad.training_buffer) >= min_samples(e)
    /\ TotalBytes(ad.training_buffer) >= min_total_bytes(e)

\* The preconditions of training (lines 208-258).
can_train(ad, e) ==
    /\ ad.training_buffer # <<>>
    /\ Len(ad.training_buffer) >= min_samples(e)
    /\ TotalBytes(ad.training_buffer) >= min_total_bytes(e)
    /\ TotalBytes(ad.training_buffer) \div Len(ad.training_buffer) >= min_bytes_per_sample(e)

\* Lines 291-296: keep the most recent max_buffer_samples / 2 samples.
trim_buffer(buffer, e) ==
    IF Len(buffer) > max_buffer_samples(e)
    THEN SubSeq(buffer, Len(buffer) - max_buffer_samples(e) \div 2 + 1, Len(buffer))
    ELSE buffer

trigger_retraining(ad, e, train_ok) ==
    IF ~can_train(ad, e) THEN [err |-> "OK", adaptive |-> ad]
    ELSE IF ~train_ok THEN [err |-> "ERR", adaptive |-> ad]
    ELSE [err |-> "OK",
          adaptive |->
            [training_buffer |-> trim_buffer(ad.training_buffer, e),
             encoder_dict |-> [id |-> ad.trainings + 1,
                               size |-> dict_size(e, TotalBytes(ad.training_buffer))],
             trainings |-> ad.trainings + 1]]

----------------------------------------------------------------------------
(* The applier's main (fuselog_apply/src/main.rs lines 43-158): the file   *)
(* is read, the payload decompressed and decoded, the actions applied.     *)
(* The file holds a header byte and a body; after the header d come the    *)
(* dictionary and an inner header byte.  An empty file has the header "".  *)

NoInput == [header |-> "", dict |-> NoDict, inner |-> "", body |-> Raw(bincode_encode(EmptyLog))]

\* Decoder::with_dictionary and read_to_end (dict is 0 for zstd::decode_all):
\* an error for bytes that are no zstd frame and for a frame made with
\* another dictionary.  ok is the outcome for a frame made with no
\* dictionary when the decoder has been given one.
decompress(body, dict, ok) ==
    IF body.codec # "zstd" THEN [err |-> "ERR", data |-> body.data]
    ELSE IF body.dict # 0 /\ body.dict # dict THEN [err |-> "ERR", data |-> body.data]
    ELSE IF body.dict = 0 /\ dict # 0 /\ ~ok THEN [err |-> "ERR", data |-> body.data]
    ELSE [err |-> "OK", data |-> body.data]

\* bincode::decode_from_slice (lines 109-112): the slice must hold the
\* whole encoding; bytes after it are ignored.  A zstd frame is no encoding
\* of a log.
decode_log(body) ==
    IF body.codec # "raw" THEN [err |-> "Failed to deserialize bincode data", log |-> EmptyLog]
    ELSE IF body.data.len < bincode_encode(bincode_decode(body.data)).len
    THEN [err |-> "Failed to deserialize bincode data", log |-> EmptyLog]
    ELSE [err |-> "OK", log |-> bincode_decode(body.data)]

\* A variant that decompresses with the dictionary cached before the run,
\* whatever the payload brings.
dictionary_cached(input, cache) == cache

\* The dictionary the payload is decompressed with (0: none, decode_all):
\* after the header d the dictionary of the payload (lines 66-86), after
\* the header z the cached one if the file exists (lines 92-98).
dictionary_used(input, cache) ==
    IF input.header = "d" THEN input.dict.id
    ELSE IF input.header = "z" THEN cache
    ELSE 0

\* Lines 55-112: the log of the payload, or the error and the stage that
\* raised it, and the dictionary cache file after it.
decode_payload(input, cache, ok) ==
    LET Decoded(z, c) ==
            IF z.err # "OK"
            THEN [err |-> "Decompression failed", stage |-> "decompress", log |-> EmptyLog,
                  cache |-> c]
            ELSE LET d == decode_log(Raw(z.data))
                 IN  [err |-> d.err, stage |-> IF d.err = "OK" THEN "apply" ELSE "decode",
                      log |-> d.log, cache |-> c]
    IN  CASE input.header = "d" ->
                IF input.inner # "z"
                THEN [err |-> "Expected zstd compressed data after dictionary payload",
                      stage |-> "header", log |-> EmptyLog, cache |-> input.dict.id]
                ELSE Decoded(decompress(input.body, dictionary_used(input, cache), ok),
                             input.dict.id)
          [] input.header = "z" ->
                Decoded(decompress(input.body, dictionary_used(input, cache), ok), cache)
          [] input.header = "n" ->
                LET d == decode_log(input.body)
                IN  [err |-> d.err, stage |-> IF d.err = "OK" THEN "apply" ELSE "decode",
                     log |-> d.log, cache |-> cache]
          [] OTHER -> [err |-> "Unknown protocol header", stage |-> "header",
                       log |-> EmptyLog, cache |-> cache]

\* A variant of main that takes a payload with an unknown header for an
\* uncompressed one.
apply_main_lenient(input, target, cache, ok) ==
    LET d == decode_payload([input EXCEPT !.header = IF @ \in {"d", "z"} THEN @ ELSE "n"],
                            cache, ok)
        r == apply_log(d.log, target)
    IN  IF input.header = ""
        THEN [err |-> "OK", stage |-> "empty", fs |-> target, cache |-> cache, applied |-> 0]
        ELSE IF d.err # "OK"
        THEN [err |-> d.err, stage |-> d.stage, fs |-> target, cache |-> d.cache,
              applied |-> 0]
        ELSE [err |-> r.err, stage |-> "apply", fs |-> r.fs, cache |-> d.cache,
              applied |-> r.applied]

\* main: the outcome of a run on the target directory.
apply_main(input, target, cache, ok) ==
    LET d == decode_payload(input, cache, ok)
        r == apply_log(d.log, target)
    IN  IF input.header = ""
        THEN [err |-> "OK", stage |-> "empty", fs |-> target, cache |-> cache, applied |-> 0]
        ELSE IF d.err # "OK"
        THEN [err |-> d.err, stage |-> d.stage, fs |-> target, cache |-> d.cache,
              applied |-> 0]
        ELSE [err |-> r.err, stage |-> "apply", fs |-> r.fs, cache |-> d.cache,
              applied |-> r.applied]

----------------------------------------------------------------------------
(* The state machine, one request or command at a time.                    *)

Envs == [prune : BOOLEAN, compression : BOOLEAN, adaptive : BOOLEAN, dev_mode : BOOLEAN]

NoHist == [allOk |-> TRUE, cmds |-> 0, sys |-> <<>>, app |-> <<>>, pruned |-> <<>>]

\* The worker threads that run the handlers, and a worker with no request.
Workers == {1, 2}
Idle == [pc |-> "idle", req |-> R0, k |-> 1, serial |-> 0, batch |-> NoBatch,
         fids |-> <<>>, out |-> NoReply, last |-> TRUE]

\* The process as the design has it: the backing directory mounted, the
\* listener on its own thread, a client connected and no command in progress.
Serving == [main |-> "mounted", conn |-> "open", pc |-> "read", out |-> NoPayload]

\* The applier before it has run: no input, no dictionary cache file.
NoApplier == [input |-> NoInput, cache |-> 0, err |-> None, stage |-> None, applied |-> 0]

\* Requests reach the handlers of a mounted file system; a command byte is
\* read from a connection that is open.
Mounted == proc.main = "mounted"
Connected == proc.conn = "open" /\ proc.pc = "read"

InitCore ==
    /\ proc = Serving
    /\ applier = NoApplier
    /\ fs = EmptyFs
    /\ inodes = NewInodes
    /\ log = EmptyLog
    /\ adaptive = NewAdaptive
    /\ reply = NoReply
    /\ sock = NoSock
    /\ sent = <<>>
    /\ th = [t \in Workers |-> Idle]
    /\ inodesLock = 0
    /\ logLock = 0
    /\ dictLock = 0
    /\ hist = NoHist

Threads == <<th, inodesLock, logLock, dictLock>>

\* nops is the number of requests and commands a run still has.
Tick == nops > 0 /\ nops' = nops - 1

\* A request served from the kernel's call to the reply.
Serve(r, out) ==
    /\ Mounted
    /\ Tick
    /\ fs' = out.fs
    /\ inodes' = out.inodes
    /\ log' = out.log
    /\ reply' = [op |-> r.op, err |-> out.err, ino |-> out.ino,
                 fh |-> reply_fh(r, out.err, out.ino), req |-> r]
    /\ sock' = NoSock
    /\ hist' = [hist EXCEPT !.allOk = @ /\ out.err = "OK"]
    /\ UNCHANGED <<adaptive, env, proc, applier, sent, Threads>>

\* handle_client, command g: send_statediff.  write_ok is whether the two
\* writes to the stream succeed.
Get(compress_ok, write_ok) ==
    LET out == serialize(log, adaptive, env, compress_ok)
        written == out.err = "OK" /\ write_ok
    IN  /\ Connected
        /\ Tick
        /\ log' = out.log
        /\ adaptive' = out.adaptive
        /\ sock' = [cmd |-> "get",
                    err |-> IF out.err # "OK" THEN out.err
                            ELSE IF write_ok THEN "OK" ELSE "EPIPE",
                    prefix |-> IF written THEN length_prefix(out.payload) ELSE <<>>,
                    payload |-> IF written THEN out.payload ELSE NoPayload]
        /\ sent' = IF written THEN Append(sent, Summary(out.payload)) ELSE sent
        /\ reply' = NoReply
        /\ hist' = [hist EXCEPT !.cmds = @ + 1]
        /\ UNCHANGED <<fs, inodes, env, proc, applier, Threads>>

\* handle_client, command c: clear_statediff.
Clear ==
    /\ Connected
    /\ Tick
    /\ log' = clear_log(log)
    /\ sock' = [cmd |-> "clear", err |-> "OK", prefix |-> <<>>, payload |-> NoPayload]
    /\ reply' = NoReply
    /\ hist' = [hist EXCEPT !.cmds = @ + 1]
    /\ UNCHANGED <<fs, inodes, adaptive, env, proc, applier, sent, Threads>>

\* handle_client, command t: trigger_retraining.
Train(train_ok) ==
    LET out == trigger_retraining(adaptive, env, train_ok)
    IN  /\ Connected
        /\ Tick
        /\ adaptive' = out.adaptive
        /\ sock' = [cmd |-> "train", err |-> out.err, prefix |-> <<>>,
                    payload |-> NoPayload]
        /\ reply' = NoReply
        /\ hist' = [hist EXCEPT !.cmds = @ + 1]
        /\ UNCHANGED <<fs, inodes, log, env, proc, applier, sent, Threads>>

\* A variant of the arm of an unknown byte that leaves the loop.
OtherClosing(cmd) ==
    /\ Connected
    /\ Tick
    /\ sock' = [cmd |-> cmd, err |-> "OK", prefix |-> <<>>, payload |-> NoPayload]
    /\ reply' = NoReply
    /\ hist' = [hist EXCEPT !.cmds = @ + 1]
    /\ proc' = [proc EXCEPT !.conn = IF cmd = "unknown" THEN "none" ELSE @]
    /\ UNCHANGED <<fs, inodes, log, adaptive, env, applier, sent, Threads>>

\* handle_client, command m and any other byte: nothing but a message.
Other(cmd) ==
    /\ Connected
    /\ Tick
    /\ sock' = [cmd |-> cmd, err |-> "OK", prefix |-> <<>>, payload |-> NoPayload]
    /\ reply' = NoReply
    /\ hist' = [hist EXCEPT !.cmds = @ + 1]
    /\ UNCHANGED <<fs, inodes, log, adaptive, env, proc, applier, sent, Threads>>

\* The requests the kernel sends: on the inodes it was given (some of them
\* forgotten by the interceptor since), with names that stay in the universe.
Inos == 1..(inodes.next_ino - 1)
NameOk(parent) ==
    HasIno(inodes, parent) => Len(get_relative_path(get_path(inodes, parent))) < 2
Orders == {<<"a", "b">>, <<"b", "a">>}
Creds == {<<1, 1>>}
SetIds == {Absent, 0}
SetSizes == {Absent} \cup Sizes
SetModes == {Absent, 416}
Datas == {<<b>> : b \in Bytes}

LookupIn(Parents) ==
    \E parent \in Parents, name \in Names :
        /\ NameOk(parent)
        /\ LET r == [R0 EXCEPT !.op = "lookup", !.parent = parent, !.name = name]
           IN  Serve(r, Run1(lookup(r, fs, inodes), log))
Lookup == LookupIn(Inos)
Getattr ==
    \E ino \in Inos :
        LET r == [R0 EXCEPT !.op = "getattr", !.ino = ino]
        IN  Serve(r, Run1(getattr(r, fs, inodes), log))
ReaddirIn(Dirs) ==
    \E ino \in Dirs, order \in Orders :
        /\ NameOk(ino)
        /\ LET r == [R0 EXCEPT !.op = "readdir", !.ino = ino, !.order = order]
           IN  Serve(r, Run1(readdir(r, fs, inodes), log))
Readdir == ReaddirIn(Inos)
Open ==
    \E ino \in Inos, op \in {"open", "flush", "release"} :
        LET r == [R0 EXCEPT !.op = op, !.ino = ino]
        IN  Serve(r, Run1(open(r, fs, inodes), log))
Read ==
    \E ino \in Inos :
        LET r == [R0 EXCEPT !.op = "read", !.ino = ino]
        IN  Serve(r, Run1(read(r, fs, inodes), log))
MkdirIn(Parents, ChownOks) ==
    \E parent \in Parents, name \in Names, mode \in ReqModes, c \in Creds,
       chown_ok \in ChownOks :
        /\ NameOk(parent)
        /\ LET r == [R0 EXCEPT !.op = "mkdir", !.parent = parent, !.name = name,
                               !.mode = mode, !.uid = c[1], !.gid = c[2],
                               !.chown_ok = chown_ok]
           IN  Serve(r, Run1(mkdir(r, fs, inodes), log))
Mkdir == MkdirIn(Inos, BOOLEAN)
RmdirIn(Parents) ==
    \E parent \in Parents, name \in Names :
        /\ NameOk(parent)
        /\ LET r == [R0 EXCEPT !.op = "rmdir", !.parent = parent, !.name = name]
           IN  Serve(r, Run1(rmdir(r, fs, inodes), log))
Rmdir == RmdirIn(Inos)
CreateIn(Parents, ChownOks) ==
    \E parent \in Parents, name \in Names, mode \in ReqModes, c \in Creds,
       chown_ok \in ChownOks :
        /\ NameOk(parent)
        /\ LET r == [R0 EXCEPT !.op = "create", !.parent = parent, !.name = name,
                               !.mode = mode, !.uid = c[1], !.gid = c[2],
                               !.chown_ok = chown_ok]
           IN  Serve(r, Run1(create(r, fs, inodes), log))
Create == CreateIn(Inos, BOOLEAN)
WriteIn(Files, Starts, Contents) ==
    \E ino \in Files, offset \in Starts, data \in Contents :
        LET r == [R0 EXCEPT !.op = "write", !.ino = ino, !.offset = offset, !.data = data]
        IN  Serve(r, Run1(write(r, fs, inodes), log))
Write == WriteIn(Inos, Offsets, Datas)
UnlinkIn(Parents) ==
    \E parent \in Parents, name \in Names :
        /\ NameOk(parent)
        /\ LET r == [R0 EXCEPT !.op = "unlink", !.parent = parent, !.name = name]
           IN  Serve(r, Run1(unlink(r, fs, inodes), log))
Unlink == UnlinkIn(Inos)
\* chown_ok is the outcome of the chown: a setattr with no uid and no gid
\* makes none.
Setattr ==
    \E ino \in Inos, mode \in SetModes, uid \in SetIds, gid \in SetIds,
       size \in SetSizes, chown_ok \in BOOLEAN :
        /\ (uid = Absent /\ gid = Absent) => chown_ok
        /\ LET r == [R0 EXCEPT !.op = "setattr", !.ino = ino, !.mode = mode, !.uid = uid,
                               !.gid = gid, !.size = size, !.chown_ok = chown_ok]
               p1 == setattr_truncate(r, fs, inodes)
           IN  Serve(r, Run2(p1, setattr_chown(r, p1.fs, p1.inodes), log))
\* A directory moves with what is in it: the request must leave every path
\* in the universe.
RenameOk(parent, name, newparent, newname) ==
    (HasIno(inodes, parent) /\ HasIno(inodes, newparent)) =>
        LET from == get_relative_path(Join(get_path(inodes, parent), name))
            to == get_relative_path(Join(get_path(inodes, newparent), newname))
        IN  FsChildren(fs, from) # {} => Len(to) < 2
RenameIn(Parents) ==
    \E parent \in Parents, name \in Names, newparent \in Parents, newname \in Names :
        /\ NameOk(parent) /\ NameOk(newparent)
        /\ RenameOk(parent, name, newparent, newname)
        /\ LET r == [R0 EXCEPT !.op = "rename", !.parent = parent, !.name = name,
                               !.newparent = newparent, !.newname = newname]
           IN  Serve(r, Run1(rename(r, fs, inodes), log))
Rename == RenameIn(Inos)
LinkIn(Parents) ==
    \E ino \in Inos, newparent \in Parents, newname \in Names :
        /\ NameOk(newparent)
        /\ LET r == [R0 EXCEPT !.op = "link", !.ino = ino, !.newparent = newparent,
                               !.newname = newname]
           IN  Serve(r, Run1(link(r, fs, inodes), log))
Link == LinkIn(Inos)

GetCmd == \E compress_ok \in BOOLEAN, write_ok \in BOOLEAN : Get(compress_ok, write_ok)
TrainCmd == \E train_ok \in BOOLEAN : Train(train_ok)
OtherCmd == \E cmd \in {"checkpoint", "unknown"} : Other(cmd)

Init == InitCore /\ env \in Envs /\ nops = MaxOps

Next ==
    \/ Lookup \/ Getattr \/ Readdir \/ Open \/ Read
    \/ Mkdir \/ Rmdir \/ Create \/ Write \/ Unlink \/ Setattr \/ Rename \/ Link
    \/ GetCmd \/ Clear \/ TrainCmd \/ OtherCmd

Spec == Init /\ [][Next]_vars

\* Longer runs of the requests that add and remove names in the mount's
\* root and write to them, with the commands that end an epoch;
\* FUSELOG_PRUNE is set.
EpochEnvs == {e \in Envs : e.prune /\ ~e.adaptive /\ ~e.dev_mode}

RootIno == {1}

InitEpoch == InitCore /\ env \in EpochEnvs /\ nops = MaxEpochOps

NextEpoch ==
    \/ MkdirIn(RootIno, {TRUE}) \/ RmdirIn(RootIno)
    \/ CreateIn(RootIno, {TRUE}) \/ UnlinkIn(RootIno)
    \/ RenameIn(RootIno) \/ WriteIn(Inos \ RootIno, {0}, Datas)
    \/ GetCmd \/ Clear

SpecEpoch == InitEpoch /\ [][NextEpoch]_vars

\* The dictionary handshake, from a state that has most of the samples that
\* training needs: the file a was created and written with BigLen bytes, and
\* WarmGets commands g were served since.
DictEnvs == {e \in Envs : e.compression /\ e.adaptive /\ e.dev_mode}

BigData == [i \in 1..BigLen |-> 0]

WarmFile ==
    Run1(create([R0 EXCEPT !.op = "create", !.parent = 1, !.name = "a", !.mode = 384,
                           !.uid = 1, !.gid = 1], EmptyFs, NewInodes), EmptyLog)

WarmWrite ==
    Run1(write([R0 EXCEPT !.op = "write", !.ino = 2, !.offset = 0, !.data = BigData],
               WarmFile.fs, WarmFile.inodes), WarmFile.log)

\* n commands g in a row, each answered: the adaptive state after them, the
\* summaries of their payloads and the last payload.
RECURSIVE Gets(_, _, _, _)
Gets(lg, ad, e, n) ==
    LET out == serialize(lg, ad, e, TRUE)
        rest == Gets(out.log, out.adaptive, e, n - 1)
    IN  IF n = 1
        THEN [adaptive |-> out.adaptive, sent |-> <<Summary(out.payload)>>,
              payload |-> out.payload]
        ELSE [adaptive |-> rest.adaptive, sent |-> <<Summary(out.payload)>> \o rest.sent,
              payload |-> rest.payload]

InitDict ==
    /\ proc = Serving
    /\ applier = NoApplier
    /\ env \in DictEnvs
    /\ fs = WarmWrite.fs
    /\ inodes = WarmWrite.inodes
    /\ log = EmptyLog
    /\ adaptive = Gets(WarmWrite.log, NewAdaptive, env, WarmGets).adaptive
    /\ sent = Gets(WarmWrite.log, NewAdaptive, env, WarmGets).sent
    /\ sock = [cmd |-> "get", err |-> "OK",
               prefix |-> length_prefix(Gets(WarmWrite.log, NewAdaptive, env, WarmGets).payload),
               payload |-> Gets(WarmWrite.log, NewAdaptive, env, WarmGets).payload]
    /\ reply = NoReply
    /\ th = [t \in Workers |-> Idle]
    /\ inodesLock = 0
    /\ logLock = 0
    /\ dictLock = 0
    /\ hist = [NoHist EXCEPT !.cmds = WarmGets]
    /\ nops = MaxDictOps

NextDict == WriteIn({2}, {0}, {BigData}) \/ GetCmd \/ TrainCmd \/ Clear

SpecDict == InitDict /\ [][NextDict]_vars

----------------------------------------------------------------------------
(* The worker threads of the driver and the socket thread, step by step.   *)

\* Variants of the two mutexes in which lock() never waits.
InodesNeverHeld(t) == TRUE
LogNeverHeld(t) == TRUE

\* Mutex::lock returns to thread t (0: the socket thread) when nobody holds
\* the mutex.
InodesFree(t) == inodesLock = 0
LogFree(t) == logLock = 0

\* The requests the kernel sends while others are in flight.
ConcReqs ==
    {[R0 EXCEPT !.op = op, !.parent = 1, !.name = name, !.mode = 384, !.uid = 1, !.gid = 1]
        : op \in {"mkdir", "rmdir", "create", "unlink"}, name \in Names}
    \cup {[R0 EXCEPT !.op = "rename", !.parent = 1, !.name = "a", !.newparent = 1,
                      !.newname = "b"]}
    \cup {[R0 EXCEPT !.op = "write", !.ino = ino, !.offset = 0, !.data = <<1>>]
            : ino \in Inos \ {1}}
    \cup {[R0 EXCEPT !.op = "setattr", !.ino = ino, !.mode = Absent, !.size = 0, !.uid = 0,
                      !.gid = Absent, !.chown_ok = chown_ok]
            : ino \in Inos \ {1}, chown_ok \in BOOLEAN}
    \cup {[R0 EXCEPT !.op = "lookup", !.parent = 1, !.name = "a"]}

\* The kernel hands a request to an idle worker.
BeginWith(t, Reqs) ==
    \E r \in Reqs :
        /\ Mounted
        /\ th[t].pc = "idle"
        /\ Tick
        /\ th' = [th EXCEPT ![t] = [Idle EXCEPT !.pc = "wait", !.req = r,
                                                !.serial = MaxConcOps - nops + 1]]
        /\ UNCHANGED <<fs, inodes, log, adaptive, env, proc, applier, reply, sock, sent,
                       inodesLock, logLock, dictLock, hist>>

Begin(t) == BeginWith(t, ConcReqs)

\* self.inodes.lock(), the first statement of every handler.
LockInodes(t) ==
    /\ th[t].pc = "wait"
    /\ InodesFree(t)
    /\ inodesLock' = t
    /\ th' = [th EXCEPT ![t].pc = "sys"]
    /\ UNCHANGED <<fs, inodes, log, adaptive, env, proc, applier, reply, sock, sent, nops,
                   logLock, dictLock, hist>>

\* The end of a handler: the reply is sent and the guard of inodes dropped.
Finish(t, out) ==
    /\ th' = [th EXCEPT ![t] = Idle]
    /\ inodesLock' = 0
    /\ reply' = [out EXCEPT !.op = th[t].req.op]

\* The handler up to its next STATEDIFF_LOG.lock(), or to its end: the
\* syscalls on the backing directory and the updates of the inode table.
Sys(t) ==
    LET p == Phase(th[t].req, th[t].k, fs, inodes)
        out == [op |-> th[t].req.op, err |-> p.err,
                ino |-> IF p.err = "OK" THEN p.ino ELSE 0,
                fh |-> reply_fh(th[t].req, p.err, p.ino), req |-> th[t].req]
    IN  /\ th[t].pc = "sys"
        /\ fs' = p.fs
        /\ inodes' = p.inodes
        /\ IF p.batch # NoBatch
           THEN /\ th' = [th EXCEPT ![t].pc = "log", ![t].batch = p.batch,
                                    ![t].out = out, ![t].last = p.last]
                /\ hist' = [hist EXCEPT
                              !.sys = Append(@, <<th[t].serial, th[t].k, p.batch.paths>>)]
                /\ UNCHANGED <<inodesLock, reply>>
           ELSE IF p.last \/ p.err # "OK"
           THEN Finish(t, out) /\ UNCHANGED hist
           ELSE /\ th' = [th EXCEPT ![t].k = 2]
                /\ UNCHANGED <<inodesLock, reply, hist>>
        /\ UNCHANGED <<log, adaptive, env, proc, applier, sock, sent, nops, logLock, dictLock>>

\* STATEDIFF_LOG.lock() and the get_fid calls of the handler.
LockLog(t) ==
    /\ th[t].pc = "log"
    /\ LogFree(t)
    /\ logLock' = t
    /\ log' = InternAll(log, th[t].batch.paths)
    /\ th' = [th EXCEPT ![t].pc = "push", ![t].fids = FidsOf(log, th[t].batch.paths)]
    /\ UNCHANGED <<fs, inodes, adaptive, env, proc, applier, reply, sock, sent, nops,
                   inodesLock, dictLock, hist>>

\* log.actions.push of the next action of the handler.  After the last
\* push the guard of the log is dropped; then the rest of the handler, if
\* it makes no other syscall.
Push(t) ==
    LET rest == Tail(th[t].batch.acts)
    IN  /\ th[t].pc = "push"
        /\ log' = PushAll(log, <<WithFids(Head(th[t].batch.acts), th[t].fids)>>)
        /\ IF rest # <<>>
           THEN /\ th' = [th EXCEPT ![t].batch.acts = rest]
                /\ UNCHANGED <<logLock, hist, inodesLock, reply>>
           ELSE /\ logLock' = 0
                /\ hist' = [hist EXCEPT
                              !.app = Append(@, <<th[t].serial, th[t].k, th[t].batch.paths>>)]
                /\ IF th[t].last
                   THEN Finish(t, th[t].out)
                   ELSE /\ th' = [th EXCEPT ![t].pc = "sys", ![t].k = 2,
                                            ![t].batch = NoBatch, ![t].fids = <<>>]
                        /\ UNCHANGED <<inodesLock, reply>>
        /\ UNCHANGED <<fs, inodes, adaptive, env, proc, applier, sock, sent, nops, dictLock>>

\* The socket thread as a holder of STATEDIFF_LOG.
SockThread == 3

\* A variant in which the guard of the log lives to the end of
\* send_statediff, past the two writes.
GuardToEndOfFunction(holder) == holder

\* send_statediff line 409: the block that binds the guard `log` ends, and
\* the mutex is free when serialized_data is written.
GuardToEndOfBlock(holder) == 0

\* send_statediff, the critical section (lines 310-409): the log is pruned,
\* serialised and cleared.  An error returns from inside it, and the guard
\* is dropped with the return.
SockSerialize ==
    \E compress_ok \in BOOLEAN :
        LET out == serialize(log, adaptive, env, compress_ok)
        IN  /\ Connected
            /\ LogFree(0)
            /\ Tick
            /\ log' = out.log
            /\ adaptive' = out.adaptive
            /\ reply' = NoReply
            /\ IF out.err = "OK"
               THEN /\ proc' = [proc EXCEPT !.pc = "write", !.out = out.payload]
                    /\ logLock' = GuardToEndOfBlock(SockThread)
                    /\ UNCHANGED <<sock, hist>>
               ELSE /\ sock' = [cmd |-> "get", err |-> out.err, prefix |-> <<>>,
                                payload |-> NoPayload]
                    /\ hist' = [hist EXCEPT !.cmds = @ + 1]
                    /\ UNCHANGED <<proc, logLock>>
            /\ UNCHANGED <<fs, inodes, env, applier, sent, th, inodesLock, dictLock>>

\* send_statediff lines 412-415: the length prefix and the payload are
\* written to the stream; the function returns.
SockWrite ==
    \E write_ok \in BOOLEAN :
        /\ proc.pc = "write"
        /\ proc' = [proc EXCEPT !.pc = "read", !.out = NoPayload]
        /\ logLock' = IF logLock = SockThread THEN 0 ELSE logLock
        /\ sock' = [cmd |-> "get",
                    err |-> IF write_ok THEN "OK" ELSE "EPIPE",
                    prefix |-> IF write_ok THEN length_prefix(proc.out) ELSE <<>>,
                    payload |-> IF write_ok THEN proc.out ELSE NoPayload]
        /\ sent' = IF write_ok THEN Append(sent, Summary(proc.out)) ELSE sent
        /\ hist' = [hist EXCEPT !.cmds = @ + 1]
        /\ UNCHANGED <<fs, inodes, log, adaptive, env, applier, reply, nops, th, inodesLock,
                       dictLock>>

\* clear_statediff does all it does to the log inside one critical section.
SockClear == LogFree(0) /\ Clear

ConcEnvs == {e \in Envs : ~e.adaptive /\ ~e.dev_mode}

InitConc ==
    /\ InitCore
    /\ env \in ConcEnvs
    /\ nops = MaxConcOps

NextConc ==
    \/ \E t \in Workers : Begin(t)
    \/ \E t \in Workers : LockInodes(t)
    \/ \E t \in Workers : Sys(t)
    \/ \E t \in Workers : LockLog(t)
    \/ \E t \in Workers : Push(t)
    \/ SockSerialize
    \/ SockWrite
    \/ SockClear

SpecConc == InitConc /\ [][NextConc]_vars

----------------------------------------------------------------------------
(* The three mutexes, acquisition by acquisition: the handlers as above,   *)
(* and the socket thread through each lock() of a command.                 *)

\* Mutex::lock on ADAPTIVE_STATE returns when nobody holds it.
DictFree == dictLock = 0

\* send_statediff lines 341-346: the branch that locks ADAPTIVE_STATE.
takes_sample(lg, e) == e.compression /\ e.adaptive /\ bincode_encode(lg).len # 0

\* send_statediff line 311: STATEDIFF_LOG.lock(), the guard `log`.
SockLockLog ==
    /\ Connected
    /\ LogFree(0)
    /\ Tick
    /\ logLock' = SockThread
    /\ proc' = [proc EXCEPT !.pc = "g_log"]
    /\ UNCHANGED <<fs, inodes, log, adaptive, env, applier, reply, sock, sent, th,
                   inodesLock, dictLock, hist>>

\* send_statediff line 348: ADAPTIVE_STATE.lock(), inside the block of the
\* guard `log`.
SockLockDict ==
    /\ proc.pc = "g_log"
    /\ takes_sample(log, env)
    /\ DictFree
    /\ dictLock' = SockThread
    /\ proc' = [proc EXCEPT !.pc = "g_dict"]
    /\ UNCHANGED <<fs, inodes, log, adaptive, env, applier, reply, sock, sent, nops, th,
                   inodesLock, logLock, hist>>

\* send_statediff lines 349-351: the sample is pushed, the dictionary
\* cloned, and the inner block ends: the guard `state` is dropped.
SockSample ==
    /\ proc.pc = "g_dict"
    /\ adaptive' = serialize(log, adaptive, env, TRUE).adaptive
    /\ dictLock' = 0
    /\ proc' = [proc EXCEPT !.pc = "g_rest"]
    /\ UNCHANGED <<fs, inodes, log, env, applier, reply, sock, sent, nops, th,
                   inodesLock, logLock, hist>>

\* The rest of the block of the guard `log` (to line 409): the log pruned,
\* compressed and cleared, the guard dropped; an error returns from inside.
\* The payload depends on the dictionary, which the push has not changed.
SockFinishBlock ==
    \E compress_ok \in BOOLEAN :
        LET out == serialize(log, adaptive, env, compress_ok)
        IN  /\ \/ proc.pc = "g_rest"
               \/ proc.pc = "g_log" /\ ~takes_sample(log, env)
            /\ log' = out.log
            /\ logLock' = 0
            /\ reply' = NoReply
            /\ IF out.err = "OK"
               THEN /\ proc' = [proc EXCEPT !.pc = "write", !.out = out.payload]
                    /\ UNCHANGED <<sock, hist>>
               ELSE /\ proc' = [proc EXCEPT !.pc = "read"]
                    /\ sock' = [cmd |-> "get", err |-> out.err, prefix |-> <<>>,
                                payload |-> NoPayload]
                    /\ hist' = [hist EXCEPT !.cmds = @ + 1]
            /\ UNCHANGED <<fs, inodes, adaptive, env, applier, sent, nops, th, inodesLock,
                           dictLock>>

\* trigger_retraining line 206: ADAPTIVE_STATE.lock(), the guard `state`.
SockLockTrain ==
    /\ Connected
    /\ DictFree
    /\ Tick
    /\ dictLock' = SockThread
    /\ proc' = [proc EXCEPT !.pc = "t_dict"]
    /\ UNCHANGED <<fs, inodes, log, adaptive, env, applier, reply, sock, sent, th,
                   inodesLock, logLock, hist>>

\* trigger_retraining from line 208 to its return, where the guard is dropped.
SockTrain ==
    \E train_ok \in BOOLEAN :
        LET out == trigger_retraining(adaptive, env, train_ok)
        IN  /\ proc.pc = "t_dict"
            /\ adaptive' = out.adaptive
            /\ dictLock' = 0
            /\ proc' = [proc EXCEPT !.pc = "read"]
            /\ sock' = [cmd |-> "train", err |-> out.err, prefix |-> <<>>,
                        payload |-> NoPayload]
            /\ reply' = NoReply
            /\ hist' = [hist EXCEPT !.cmds = @ + 1]
            /\ UNCHANGED <<fs, inodes, log, env, applier, sent, nops, th, inodesLock,
                           logLock>>

LockEnvs == {e \in Envs : ~e.prune /\ e.dev_mode /\ (e.adaptive => e.compression)}

\* Requests with one batch, with two (setattr) and with none (lookup).
LockReqs ==
    {[R0 EXCEPT !.op = op, !.parent = 1, !.name = "a", !.mode = 384, !.uid = 1, !.gid = 1]
        : op \in {"create", "unlink", "lookup"}}
    \cup {[R0 EXCEPT !.op = "setattr", !.ino = ino, !.mode = Absent, !.size = 0, !.uid = 0,
                      !.gid = Absent]
            : ino \in Inos \ {1}}

InitLock ==
    /\ InitCore
    /\ env \in LockEnvs
    /\ nops = MaxConcOps

\* What a handler or a command under way does next.
StepLock ==
    \/ \E t \in Workers : LockInodes(t)
    \/ \E t \in Workers : Sys(t)
    \/ \E t \in Workers : LockLog(t)
    \/ \E t \in Workers : Push(t)
    \/ SockLockDict
    \/ SockSample
    \/ SockFinishBlock
    \/ SockWrite
    \/ SockTrain

NextLock ==
    \/ \E t \in Workers : BeginWith(t, LockReqs)
    \/ SockLockLog
    \/ SockLockTrain
    \/ SockClear
    \/ StepLock

SpecLock == InitLock /\ [][NextLock]_vars

----------------------------------------------------------------------------
(* prune_log on its own: any log over two FIDs, pruned and pruned again.   *)

PruneFids == {1, 2}
PruneTable == [fid \in PruneFids |-> IF fid = 1 THEN <<"a">> ELSE <<"b">>]
PruneModes == {384, 416, 420}

\* The actions of statediff.rs and those prune_log and the applier know
\* besides (Create, Chmod, Symlink), on the FIDs of the table.
PruneActs ==
    {[type |-> t, fid |-> f] : t \in {"Mkdir", "Rmdir", "Unlink"}, f \in PruneFids}
    \cup {[type |-> "Create", fid |-> f, uid |-> 1, gid |-> 1, mode |-> 384] : f \in PruneFids}
    \cup {[type |-> "Symlink", link_fid |-> f, target_path |-> <<"a">>, uid |-> 1,
           gid |-> 1] : f \in PruneFids}
    \cup {[type |-> "Write", fid |-> f, offset |-> 0, data |-> <<1>>] : f \in PruneFids}
    \cup {[type |-> "Truncate", fid |-> f, size |-> 0] : f \in PruneFids}
    \cup {[type |-> "Chown", fid |-> f, uid |-> u, gid |-> u] : f \in PruneFids, u \in Ids}
    \cup {[type |-> "Chmod", fid |-> f, mode |-> m] : f \in PruneFids, m \in PruneModes}
    \cup {[type |-> "Rename", from_fid |-> f, to_fid |-> 3 - f] : f \in PruneFids}
    \cup {[type |-> "Link", source_fid |-> f, new_link_fid |-> 3 - f] : f \in PruneFids}

PruneInputs ==
    {[fid_map |-> PruneTable, actions |-> acts] :
        acts \in UNION {[1..n -> PruneActs] : n \in 0..MaxLogLen}}

\* send_statediff line 328: prune_log(&mut log), the log rewritten in place.
PruneLog ==
    /\ Tick
    /\ log' = prune_log(log)
    /\ sock' = [cmd |-> "prune", err |-> "OK", prefix |-> <<>>, payload |-> NoPayload]
    /\ reply' = NoReply
    /\ hist' = [hist EXCEPT !.pruned = Append(@, log)]
    /\ UNCHANGED <<fs, inodes, adaptive, env, proc, applier, sent, Threads>>

InitPrune ==
    /\ proc = Serving
    /\ applier = NoApplier
    /\ fs = EmptyFs
    /\ inodes = NewInodes
    /\ log \in PruneInputs
    /\ adaptive = NewAdaptive
    /\ env = [prune |-> TRUE, compression |-> FALSE, adaptive |-> FALSE, dev_mode |-> FALSE]
    /\ reply = NoReply
    /\ sock = NoSock
    /\ sent = <<>>
    /\ th = [t \in Workers |-> Idle]
    /\ inodesLock = 0
    /\ logLock = 0
    /\ dictLock = 0
    /\ hist = NoHist
    /\ nops = MaxPrunes

NextPrune == PruneLog

SpecPrune == InitPrune /\ [][NextPrune]_vars

----------------------------------------------------------------------------
(* The inode table over longer runs: the requests that intern, move and    *)
(* forget paths in the mount's root, and requests on the inodes interned.  *)

InoEnvs == {e \in Envs : ~e.prune /\ ~e.compression /\ ~e.adaptive /\ ~e.dev_mode}

InitIno == InitCore /\ env \in InoEnvs /\ nops = MaxInoOps

NextIno ==
    \/ LookupIn(RootIno) \/ ReaddirIn(RootIno) \/ Getattr
    \/ MkdirIn(RootIno, {TRUE}) \/ RmdirIn(RootIno)
    \/ CreateIn(RootIno, {TRUE}) \/ UnlinkIn(RootIno)
    \/ RenameIn(RootIno) \/ LinkIn(RootIno)
    \/ WriteIn(Inos \ RootIno, {0}, Datas)

SpecIno == InitIno /\ [][NextIno]_vars

----------------------------------------------------------------------------
(* trigger_retraining on its own: training buffers on either side of each  *)
(* threshold of either mode, with and without a dictionary trained before. *)

TrainEnvs == {e \in Envs : e.compression /\ e.adaptive}

\* What send_statediff pushes to the training buffer for a log that holds
\* one write of k bytes.
Sample(k) ==
    bincode_encode([fid_map |-> [f \in {1} |-> <<"a">>],
                    actions |-> <<[type |-> "Write", fid |-> 1, offset |-> 0,
                                   data |-> [i \in 1..k |-> 0]]>>])

\* Buffers of n samples of one size: <<n, k>>.
TrainBuffers ==
    {<<0, 40>>, <<4, 400>>, <<5, 40>>, <<5, 400>>, <<42, 40>>, <<42, 400>>,
     <<49, 2048>>, <<50, 400>>, <<50, 2048>>}

TrainInputs ==
    {[training_buffer |-> [i \in 1..b[1] |-> Sample(b[2])],
      encoder_dict |-> IF t = 0 THEN NoDict ELSE [id |-> t, size |-> 512],
      trainings |-> t] : b \in TrainBuffers, t \in {0, 1}}

InitTrain ==
    /\ proc = Serving
    /\ applier = NoApplier
    /\ fs = EmptyFs
    /\ inodes = NewInodes
    /\ log = EmptyLog
    /\ adaptive \in TrainInputs
    /\ env \in TrainEnvs
    /\ reply = NoReply
    /\ sock = NoSock
    /\ sent = <<>>
    /\ th = [t \in Workers |-> Idle]
    /\ inodesLock = 0
    /\ logLock = 0
    /\ dictLock = 0
    /\ hist = NoHist
    /\ nops = MaxTrainOps

NextTrain == TrainCmd \/ GetCmd

SpecTrain == InitTrain /\ [][NextTrain]_vars

----------------------------------------------------------------------------
(* The applier on its own: payloads, whole and corrupt, of logs over two   *)
(* FIDs, applied to a target directory once and again.                     *)

ApplyTables ==
    {[fid \in {1, 2} |-> IF fid = 1 THEN <<"a">> ELSE <<"a", "b">>],
     [fid \in {1, 2} |-> IF fid = 1 THEN <<"a">> ELSE <<"b">>]}

\* The actions on the FIDs of the table, and actions that name FID 3.
ApplyActs ==
    {[type |-> t, fid |-> f] : t \in {"Mkdir", "Rmdir", "Unlink"}, f \in {1, 2}}
    \cup {[type |-> "Create", fid |-> f, uid |-> 1, gid |-> 1, mode |-> 384] : f \in {1, 2}}
    \cup {[type |-> "Write", fid |-> f, offset |-> 0, data |-> <<1>>] : f \in {1, 2, 3}}
    \cup {[type |-> "Truncate", fid |-> f, size |-> 0] : f \in {1, 2}}
    \cup {[type |-> "Chown", fid |-> f, uid |-> 1, gid |-> 1] : f \in {1, 2}}
    \cup {[type |-> "Chmod", fid |-> f, mode |-> 416] : f \in {1, 2}}
    \cup {[type |-> "Rename", from_fid |-> ft[1], to_fid |-> ft[2]] :
            ft \in {<<1, 2>>, <<2, 1>>, <<1, 3>>, <<3, 1>>}}
    \cup {[type |-> "Link", source_fid |-> ft[1], new_link_fid |-> ft[2]] :
            ft \in {<<1, 2>>, <<2, 1>>, <<1, 3>>}}
    \cup {[type |-> "Unlink", fid |-> 3]}

ApplyLogs(n) ==
    {[fid_map |-> t, actions |-> acts] :
        t \in ApplyTables, acts \in UNION {[1..k -> ApplyActs] : k \in 0..n}}

\* What send_statediff writes for a log: uncompressed, compressed, and
\* compressed with the dictionary it carries.
Plain(lg) == [header |-> "n", dict |-> NoDict, inner |-> "", body |-> Raw(bincode_encode(lg))]
Compressed(lg, dict) ==
    [header |-> "z", dict |-> NoDict, inner |-> "", body |-> Zstd(bincode_encode(lg), dict)]
WithDictionary(lg, dict) ==
    [header |-> "d", dict |-> [id |-> dict, size |-> 512], inner |-> "z",
     body |-> Zstd(bincode_encode(lg), dict)]

\* The payloads of a log and corrupt forms of them: another header byte, a
\* file cut short, a body that is no zstd frame, an inner header that is
\* not z, a frame made with a dictionary the applier does not have.
Forms(lg) ==
    {Compressed(lg, 0), Compressed(lg, 1), WithDictionary(lg, 1),
     [Plain(lg) EXCEPT !.header = "x"],
     [Plain(lg) EXCEPT !.body.data.len = @ - 1],
     [Compressed(lg, 0) EXCEPT !.body = Raw(bincode_encode(lg))],
     [WithDictionary(lg, 1) EXCEPT !.inner = "n"],
     Compressed(lg, 2),
     NoInput}

ApplyInputs ==
    {Plain(lg) : lg \in ApplyLogs(MaxApplyLen)} \cup UNION {Forms(lg) : lg \in ApplyLogs(1)}

\* Target directories: empty, with the file a, with the directory a and
\* the file a/b, with the directory a and the file b.
TargetFile(f, p) == FsCreateFile(f, p).fs
TargetDir(f, p) == FsCreateDir(f, p).fs
ApplyTargets ==
    {EmptyFs,
     TargetFile(EmptyFs, <<"a">>),
     TargetFile(TargetDir(EmptyFs, <<"a">>), <<"a", "b">>),
     TargetFile(TargetDir(EmptyFs, <<"a">>), <<"b">>)}

\* A run of fuselog-apply on the target directory.
Apply ==
    \E ok \in BOOLEAN :
        LET r == apply_main(applier.input, fs, applier.cache, ok)
        IN  /\ Tick
            /\ fs' = r.fs
            /\ applier' = [applier EXCEPT !.cache = r.cache, !.err = r.err,
                                          !.stage = r.stage, !.applied = r.applied]
            /\ UNCHANGED <<inodes, log, adaptive, env, reply, sock, sent, Threads, hist, proc>>

InitApply ==
    /\ fs \in ApplyTargets
    /\ applier \in {[NoApplier EXCEPT !.input = input, !.cache = cache] :
                        input \in ApplyInputs, cache \in {0, 1}}
    /\ proc = Serving
    /\ inodes = NewInodes
    /\ log = EmptyLog
    /\ adaptive = NewAdaptive
    /\ env = [prune |-> FALSE, compression |-> FALSE, adaptive |-> FALSE, dev_mode |-> FALSE]
    /\ reply = NoReply
    /\ sock = NoSock
    /\ sent = <<>>
    /\ th = [t \in Workers |-> Idle]
    /\ inodesLock = 0
    /\ logLock = 0
    /\ dictLock = 0
    /\ hist = NoHist
    /\ nops = MaxApplies

NextApply == Apply

SpecApply == InitApply /\ [][NextApply]_vars

----------------------------------------------------------------------------
(* The server and the applier together: every payload a g command writes   *)
(* is handed to fuselog-apply before the next command.                     *)

AgreeEnvs == {e \in Envs : e.compression /\ ~e.prune}

\* The file the client hands to fuselog-apply: the bytes send_statediff
\* wrote after the length (lines 361-376): after a dictionary, the inner
\* header z.
wire(payload) ==
    [header |-> payload.header, dict |-> payload.dict,
     inner |-> IF payload.header = "d" THEN "z" ELSE "",
     body |-> payload.body]

\* A payload has been written and not yet handed to the applier.
Pending == sock.cmd = "get" /\ sock.err = "OK"

\* The client runs fuselog-apply on the payload it received.  The target
\* directory is not among the directories of this specification.
Deliver ==
    \E ok \in BOOLEAN :
        LET r == apply_main(wire(sock.payload), EmptyFs, applier.cache, ok)
        IN  /\ Pending
            /\ applier' = [input |-> wire(sock.payload), cache |-> r.cache, err |-> r.err,
                           stage |-> r.stage, applied |-> r.applied]
            /\ sock' = [sock EXCEPT !.cmd = "delivered"]
            /\ UNCHANGED <<fs, inodes, log, adaptive, env, reply, sent, nops, Threads, hist,
                           proc>>

AgreeGet == ~Pending /\ GetCmd
AgreeTrain == ~Pending /\ TrainCmd

InitAgree ==
    /\ proc = Serving
    /\ applier = NoApplier
    /\ fs = EmptyFs
    /\ inodes = NewInodes
    /\ log = EmptyLog
    /\ adaptive \in TrainInputs
    /\ env \in AgreeEnvs
    /\ reply = NoReply
    /\ sock = NoSock
    /\ sent = <<>>
    /\ th = [t \in Workers |-> Idle]
    /\ inodesLock = 0
    /\ logLock = 0
    /\ dictLock = 0
    /\ hist = NoHist
    /\ nops = MaxAgreeOps

NextAgree == AgreeGet \/ AgreeTrain \/ Deliver

SpecAgree == InitAgree /\ [][NextAgree]_vars

----------------------------------------------------------------------------
(* The process from its start (fuselog_core/src/main.rs): main calls       *)
(* start_listener, which binds the socket and serves one client after      *)
(* another, and mounts the file system after the call.                     *)

Starting == [main |-> "start", conn |-> "none", pc |-> "read", out |-> NoPayload]

\* main, from where it stands.  At its start it calls start_listener (lines
\* 33-37): when bind fails the call returns the error and main exits; else
\* main is in the loop over listener.incoming().  After a call that
\* returned Ok come set_current_dir, FuseLogFS::new and mount2 (lines 39-53).
MainStep ==
    \E bind_ok \in BOOLEAN :
        /\ proc.main \in {"start", "returned"}
        /\ proc' = [proc EXCEPT !.main = IF proc.main = "returned" THEN "mounted"
                                         ELSE IF bind_ok THEN "listening"
                                         ELSE "exited"]
        /\ UNCHANGED <<fs, inodes, log, adaptive, env, reply, sock, sent, nops, Threads,
                       hist, applier>>

\* start_listener lines 83-91: incoming() yields a connection and
\* handle_client is entered.  incoming() never yields None: the loop has
\* no end and no break.
Accept ==
    /\ proc.main = "listening"
    /\ proc.conn = "none"
    /\ proc' = [proc EXCEPT !.conn = "open"]
    /\ UNCHANGED <<fs, inodes, log, adaptive, env, reply, sock, sent, nops, Threads,
                   hist, applier>>

\* handle_client lines 61-64: read_exact fails when the client has gone;
\* the loop breaks and start_listener waits for the next connection.
Disconnect ==
    /\ proc.main = "listening"
    /\ Connected
    /\ proc' = [proc EXCEPT !.conn = "none"]
    /\ UNCHANGED <<fs, inodes, log, adaptive, env, reply, sock, sent, nops, Threads,
                   hist, applier>>

InitMain ==
    /\ proc = Starting
    /\ applier = NoApplier
    /\ fs = EmptyFs
    /\ inodes = NewInodes
    /\ log = EmptyLog
    /\ adaptive = NewAdaptive
    /\ env \in Envs
    /\ reply = NoReply
    /\ sock = NoSock
    /\ sent = <<>>
    /\ th = [t \in Workers |-> Idle]
    /\ inodesLock = 0
    /\ logLock = 0
    /\ dictLock = 0
    /\ hist = NoHist
    /\ nops = MaxMainOps

NextMain ==
    \/ MainStep \/ Accept \/ Disconnect
    \/ GetCmd \/ Clear \/ TrainCmd \/ OtherCmd

SpecMain == InitMain /\ [][NextMain]_vars

\* main is a thread of its own: it takes its next step when it has one.
FairSpecMain == SpecMain /\ WF_vars(MainStep)

----------------------------------------------------------------------------
(* Properties.                                                             *)

\* The last step was a request to the interceptor.
Replied == reply.op # None
\* The last step was a `get` that wrote its payload to the client.
GotPayload == sock.cmd = "get" /\ sock.err = "OK"
\* What the client decodes from the payload it was sent.
Received == bincode_decode(sock.payload.body.data)

\* C1: end-to-end replay equivalence.  After requests that all succeeded,
\* a first `get` with pruning disabled returns a log that, applied to an
\* empty target, gives the tree of the backing directory: the same paths,
\* kinds, contents, modes, owners and hard links.
ReplayEquivalence ==
    (GotPayload /\ ~env.prune /\ hist.allOk /\ hist.cmds = 1) =>
        LET replay == apply_log(Received, EmptyFs)
        IN  replay.err = "OK" /\ SameTree(replay.fs, fs)

\* The step is a request to the interceptor that replied with an error.
FailedRequest == reply'.op # None /\ reply'.err # "OK"

\* The one change a failed request makes to the log: setattr appended the
\* Truncate of the truncation it made before its chown failed.
TruncateOnly ==
    /\ reply'.op = "setattr"
    /\ Len(log'.actions) = Len(log.actions) + 1
    /\ SubSeq(log'.actions, 1, Len(log.actions)) = log.actions
    /\ LET a == log'.actions[Len(log'.actions)]
       IN  /\ a.type = "Truncate"
           /\ a.fid \in DOMAIN log'.fid_map
           /\ FsIsFile(fs', log'.fid_map[a.fid])
           /\ Len(fs'[log'.fid_map[a.fid]].data) = a.size
    /\ \A fid \in DOMAIN log.fid_map :
          fid \in DOMAIN log'.fid_map /\ log'.fid_map[fid] = log.fid_map[fid]

\* C5, as the code has it: a request that replies with an error leaves the
\* action list and the FID table as they were, except that a setattr whose
\* truncation succeeded and whose chown then failed has appended the
\* Truncate action of the truncation it made.
NoEntryForFailedSyscall == [][FailedRequest => (log' = log \/ TruncateOnly)]_vars

\* C5 as stated: a request that replies with an error leaves the action
\* list and the FID table exactly as they were.
FailedRequestLeavesLog == [][FailedRequest => log' = log]_vars

\* A setattr replied EPERM for its chown and the log ends with a Truncate.
FailedSetattrLogged ==
    /\ reply.op = "setattr" /\ reply.err = "EPERM"
    /\ log.actions # <<>>
    /\ log.actions[Len(log.actions)].type = "Truncate"

\* The last step was a `get` that returned a payload, or a `clear`.
Drained == GotPayload \/ (sock.cmd = "clear" /\ sock.err = "OK")
\* The step is a `get`.
GetStep == sock'.cmd = "get" /\ hist'.cmds = hist.cmds + 1

\* C6: after a `get` that returns a payload and after a `clear` the action
\* list and the FID table are empty, and the payload of a `get` that comes
\* next encodes an empty action list and an empty FID table.
DrainedLogIsEmpty ==
    [][/\ Drained' => log' = EmptyLog
       /\ (Drained /\ GetStep /\ GotPayload') =>
             bincode_decode(sock'.payload.body.data) = EmptyLog]_vars

\* Two commands were all the run had so far, both a `get` that returned a
\* payload.
SecondGetAnswered ==
    /\ nops = MaxOps - 2 /\ hist.cmds = 2 /\ Len(sent) = 2
    /\ GotPayload /\ Received = EmptyLog

\* C3: every FID that an action of the log references is a key of the FID
\* table, whatever the interleaving of handlers, `get` and `clear`.
RefsKnown ==
    \A i \in 1..Len(log.actions) : action_fids(log.actions[i]) \subseteq DOMAIN log.fid_map

\* A handler holds the log between its get_fid calls and its pushes, after
\* the socket thread served a command, and the log has actions.
PushAfterCommand ==
    /\ hist.cmds > 0
    /\ log.actions # <<>>
    /\ \E t \in Workers : th[t].pc = "push" /\ logLock = t

\* C4: the batches are appended to the log in the order in which their
\* backing syscalls completed: at most the last syscall is not yet logged.
OrderKept == IsPrefix(hist.app, hist.sys)

\* Two workers have logged requests on the same path, one after the other.
TwoWorkersOnePath ==
    \E i, j \in DOMAIN hist.app :
        /\ i < j
        /\ hist.app[i][1] # hist.app[j][1]
        /\ \E m \in DOMAIN hist.app[i][3], n \in DOMAIN hist.app[j][3] :
              hist.app[i][3][m] = hist.app[j][3][n]
        /\ \A t \in Workers : th[t].pc = "idle"

\* C9: a dictionary goes to the client once: no two payloads written to the
\* client carry the header d with the same dictionary.
DictionarySentOnce ==
    \A i, j \in DOMAIN sent :
        (i < j /\ sent[i].header = "d" /\ sent[j].header = "d") => sent[i].dict # sent[j].dict

\* No payload written to the client was compressed with the dictionary.
Unused(dict) == \A i \in DOMAIN sent : sent[i].zdict # dict.id

\* C10: when a dictionary has been trained and no payload used it yet, the
\* payload of the next `get` with compression and ADAPTIVE_COMPRESSION on
\* is the header d, the length of the dictionary, the dictionary, the header
\* z and the body compressed with that dictionary.
FirstUseCarriesDictionary ==
    [][(/\ GetStep /\ GotPayload'
        /\ env.compression /\ env.adaptive
        /\ adaptive.encoder_dict # NoDict
        /\ Unused(adaptive.encoder_dict)) =>
            /\ sock'.payload.header = "d"
            /\ sock'.payload.dict = adaptive.encoder_dict
            /\ sock'.payload.body.codec = "zstd"
            /\ sock'.payload.body.dict = adaptive.encoder_dict.id]_vars

\* The last command was a `get` whose payload is the first to use the
\* dictionary that a `t` command trained.
FirstUseSeen ==
    /\ GotPayload
    /\ adaptive.trainings > 0
    /\ sock.payload.header = "d"
    /\ sock.payload.dict = adaptive.encoder_dict
    /\ \A i \in 1..(Len(sent) - 1) : sent[i].zdict # adaptive.encoder_dict.id

\* C2: pruning preserves what the log replays to.  Applying the pruned log
\* to an empty target ends as applying the log does, with the same tree.
PruneKeepsReplay ==
    LET whole == apply_log(log, EmptyFs)
        pruned == apply_log(prune_log(log), EmptyFs)
    IN  pruned.err = whole.err /\ SameTree(pruned.fs, whole.fs)

\* C7: the keys of the FID table are 1..n, n the size of the table.
FidsDense == DOMAIN log.fid_map = 1..Cardinality(DOMAIN log.fid_map)

\* C8: a request to the interceptor keeps every entry of the FID table:
\* get_fid binds new FIDs and changes the path of none.
FidsStable ==
    [][reply'.op # None =>
         \A fid \in DOMAIN log.fid_map :
            fid \in DOMAIN log'.fid_map /\ log'.fid_map[fid] = log.fid_map[fid]]_vars

\* The log that create(p), n writes to p and unlink(p) leave, served from an
\* empty log.
TmpCreated(name) ==
    Run1(create([R0 EXCEPT !.op = "create", !.parent = 1, !.name = name, !.mode = 384,
                           !.uid = 1, !.gid = 1], EmptyFs, NewInodes), EmptyLog)

RECURSIVE TmpWritten(_, _)
TmpWritten(name, n) ==
    IF n = 0 THEN TmpCreated(name)
    ELSE LET run == TmpWritten(name, n - 1)
         IN  Run1(write([R0 EXCEPT !.op = "write", !.ino = 2, !.offset = 0, !.data = <<1>>],
                        run.fs, run.inodes), run.log)

TmpUnlinked(name, n) ==
    LET run == TmpWritten(name, n)
    IN  Run1(unlink([R0 EXCEPT !.op = "unlink", !.parent = 1, !.name = name],
                    run.fs, run.inodes), run.log)

EphemeralLogs == {TmpUnlinked(name, n).log : name \in Names, n \in 0..MaxEpochOps}

\* C11: ephemeral files are cancelled.  When the epoch's requests were
\* create(p), any number of writes to p and unlink(p), a `get` with pruning
\* enabled returns a log with no action and no FID.
EphemeralCancelled ==
    [][(GetStep /\ GotPayload' /\ env.prune /\ log \in EphemeralLogs) =>
          bincode_decode(sock'.payload.body.data) = EmptyLog]_vars

\* The step is prune_log rewriting the log.
Pruning == sock'.cmd = "prune" /\ hist'.pruned = Append(hist.pruned, log)

\* The FIDs that an action list references.
FidsIn(acts) == UNION {action_fids(acts[i]) : i \in DOMAIN acts}

\* Rule 2 of the pruner: the FIDs with a Create, Mkdir or Symlink action
\* followed later by an Unlink or Rmdir.
IsCreation(a, f) ==
    \/ a.type \in {"Create", "Mkdir"} /\ a.fid = f
    \/ a.type = "Symlink" /\ a.link_fid = f
IsRemoval(a, f) == a.type \in {"Unlink", "Rmdir"} /\ a.fid = f
Purged(acts) ==
    {f \in FidsIn(acts) :
        \E i, j \in DOMAIN acts : i < j /\ IsCreation(acts[i], f) /\ IsRemoval(acts[j], f)}

\* Rule 1 of the pruner: a Chmod or Chown with a later one on the same FID.
Superseded(acts, i) ==
    /\ acts[i].type \in {"Chown", "Chmod"}
    /\ \E j \in DOMAIN acts :
          j > i /\ acts[j].type = acts[i].type /\ acts[j].fid = acts[i].fid

\* The indices of the actions that the two rules leave.
Kept(acts) ==
    LET purged == Purged(acts)
    IN  {i \in DOMAIN acts : action_fids(acts[i]) \cap purged = {} /\ ~Superseded(acts, i)}

\* C12: pruning is idempotent.  prune_log applied to a log that prune_log
\* returned changes neither the action list nor the FID table.
PruneIdempotent == [][(Pruning /\ hist.pruned # <<>>) => log' = log]_vars

\* A log was pruned twice; the first pruning dropped some of its actions
\* and left others.
PrunedTwice ==
    /\ Len(hist.pruned) = 2
    /\ hist.pruned[2].actions # hist.pruned[1].actions
    /\ hist.pruned[2].actions # <<>>
    /\ log = hist.pruned[2]

\* The indices of the Chown (Chmod) actions on a FID.
KindOn(acts, kind, f) == {i \in DOMAIN acts : acts[i].type = kind /\ acts[i].fid = f}
MaxOf(S) == CHOOSE x \in S : \A y \in S : y <= x

Collapsed(before, after) ==
    LET kept == Kept(before)
    IN  \A f \in FidsIn(before) \ Purged(before), kind \in {"Chown", "Chmod"} :
            LET was == KindOn(before, kind, f)
                now == KindOn(after, kind, f)
            IN  IF was = {} THEN now = {}
                ELSE /\ Cardinality(now) = 1
                     /\ \A j \in now :
                           /\ after[j] = before[MaxOf(was)]
                           /\ j = Cardinality({i \in kept : i <= MaxOf(was)})

\* C13: Chmod/Chown collapse.  For every FID that is not purged, the pruned
\* log has at most one Chown and at most one Chmod on it: the last one of
\* the log, at the place of that last one among the surviving actions.
ChownChmodCollapse == [][Pruning => Collapsed(log.actions, log'.actions)]_vars

\* Three Chmod on FID 1 with modes 0600, 0640 and 0644 were pruned to the
\* one Chmod with mode 0644.
ThreeChmodsCollapsed ==
    /\ Len(hist.pruned) = 1
    /\ hist.pruned[1].actions = <<[type |-> "Chmod", fid |-> 1, mode |-> 384],
                                  [type |-> "Chmod", fid |-> 1, mode |-> 416],
                                  [type |-> "Chmod", fid |-> 1, mode |-> 420]>>
    /\ log.actions = <<[type |-> "Chmod", fid |-> 1, mode |-> 420]>>

IsData(a) == a.type \in {"Write", "Truncate"}
DataOf(acts) == SelectSeq(acts, IsData)
DataKept(acts) == SelectSeq(acts, LAMBDA a : IsData(a) /\ a.fid \notin Purged(acts))

\* C14, as the code has it: the pruner drops a Write or a Truncate exactly
\* when its FID is purged; the Write and Truncate actions on every other
\* FID all appear in the pruned log, in their order.
DataDroppedOnlyByPurge == [][Pruning => DataOf(log'.actions) = DataKept(log.actions)]_vars

\* C14 as stated: every Write and every Truncate of the log appears in the
\* pruned log.
DataNeverDropped == [][Pruning => DataOf(log'.actions) = DataOf(log.actions)]_vars

\* A log with a Write or Truncate on a purged FID was pruned, and the pruned
\* log has none.
PurgedDataDropped ==
    /\ Len(hist.pruned) = 1
    /\ DataOf(hist.pruned[1].actions) # <<>>
    /\ DataKept(hist.pruned[1].actions) = <<>>
    /\ DataOf(log.actions) = <<>>

SetattrDone == reply'.op = "setattr" /\ reply'.err = "OK"

\* What a setattr with the fields of r appends for the path p with FID fid:
\* a Truncate, a Chmod and a Chown, each when its field is present.
SetattrActs(r, p, fid) ==
    (IF r.size # Absent THEN <<[type |-> "Truncate", fid |-> fid, size |-> r.size]>>
     ELSE <<>>)
    \o (IF r.mode # Absent THEN <<[type |-> "Chmod", fid |-> fid, mode |-> r.mode]>>
        ELSE <<>>)
    \o (IF r.uid # Absent \/ r.gid # Absent
        THEN <<[type |-> "Chown", fid |-> fid,
                uid |-> IF r.uid = Absent THEN fs[p].uid ELSE r.uid,
                gid |-> IF r.gid = Absent THEN fs[p].gid ELSE r.gid]>>
        ELSE <<>>)

\* C16: setattr applies and logs each present field in the order truncate,
\* chmod, chown: it appends Truncate{fid,size}, then Chmod{fid,mode}, then
\* Chown{fid,final_uid,final_gid}, and a setattr with a mode leaves the
\* backing file with that mode.
SetattrLogsEachField ==
    [][SetattrDone =>
         LET r == reply'.req
             p == get_relative_path(get_path(inodes, r.ino))
         IN  /\ log'.actions = log.actions \o SetattrActs(r, p, fid_of(log, p))
             /\ r.mode # Absent => fs'[p].mode = r.mode]_vars

\* Worker t has pushed the Mkdir of its mkdir and not yet the Chown.
MkdirHalfLogged(t) ==
    th[t].pc = "push" /\ th[t].req.op = "mkdir" /\ Len(th[t].batch.acts) = 1

\* The step appends one action to the log, a Mkdir.
MkdirPushed ==
    /\ Len(log'.actions) = Len(log.actions) + 1
    /\ log'.actions[Len(log'.actions)].type = "Mkdir"

\* C17: a mkdir appends Mkdir{fid} and Chown{fid,uid,gid} as one unit.  From
\* the push of the Mkdir to the push of its Chown the Mkdir stays the last
\* action of the log and nothing else changes the log: no other handler's
\* action, no get_fid of another handler, no `get` and no `clear`.
MkdirPairAtomic ==
    [][/\ MkdirPushed =>
            \E t \in Workers :
                /\ MkdirHalfLogged(t)'
                /\ log'.actions[Len(log'.actions)].fid = th'[t].fids[1]
       /\ \A t \in Workers :
            MkdirHalfLogged(t) =>
                /\ log.actions # <<>>
                /\ log.actions[Len(log.actions)] = [type |-> "Mkdir", fid |-> th[t].fids[1]]
                /\ \/ log' = log
                   \/ log' = PushAll(log, <<[type |-> "Chown", fid |-> th[t].fids[1],
                                             uid |-> th[t].req.uid,
                                             gid |-> th[t].req.gid]>>)]_vars

\* A mkdir is between its two pushes while the other worker has a request
\* and the socket thread has served a command before.
MkdirHalfLoggedUnderLoad ==
    \E t, u \in Workers :
        /\ t # u
        /\ MkdirHalfLogged(t)
        /\ th[u].pc = "wait"
        /\ hist.cmds > 0

\* The step is a mkdir or a create that made its object and whose chown
\* then failed.
ChownFailedAfterMaking ==
    LET r == reply'.req
        p == get_relative_path(Join(get_path(inodes, r.parent), r.name))
    IN  /\ reply'.op \in {"mkdir", "create"}
        /\ ~r.chown_ok
        /\ HasIno(inodes, r.parent)
        /\ IF r.op = "mkdir" THEN ~FsExists(fs, p) /\ FsCreateDir(fs, p).err = "OK"
           ELSE FsCreateFile(fs, p).err = "OK"

\* C18: rollback on chown failure.  When mkdir or create made the object and
\* the chown failed, the object is not in the backing directory, the reply
\* is the errno of the chown, the inode table is as it was and so are the
\* action list and the FID table.
RollbackOnChownFailure ==
    [][ChownFailedAfterMaking =>
         LET r == reply'.req
             p == get_relative_path(Join(get_path(inodes, r.parent), r.name))
         IN  /\ ~FsExists(fs', p)
             /\ reply'.err = "EPERM"
             /\ reply'.ino = 0
             /\ inodes' = inodes
             /\ log' = log]_vars

\* A mkdir was rolled back after an earlier request had succeeded.
MkdirRolledBack ==
    /\ reply.op = "mkdir" /\ reply.err = "EPERM" /\ ~reply.req.chown_ok
    /\ HasIno(inodes, reply.req.parent)
    /\ ~FsExists(fs, get_relative_path(Join(get_path(inodes, reply.req.parent),
                                            reply.req.name)))
    /\ log.actions # <<>>

\* The inodes that resolve to the relative path p.
InosOf(im, p) ==
    {i \in DOMAIN im.ino_to_path : get_relative_path(im.ino_to_path[i]) = p}

\* C19: rename keeps the inode.  After a successful rename(old, new) every
\* inode that resolved to old, whether lookup or readdir interned it,
\* resolves to new, and no inode resolves to old.
RenameKeepsInode ==
    [][(reply'.op = "rename" /\ reply'.err = "OK") =>
         LET r == reply'.req
             old == get_relative_path(Join(get_path(inodes, r.parent), r.name))
             new == get_relative_path(Join(get_path(inodes, r.newparent), r.newname))
         IN  old # new =>
                /\ InosOf(inodes, old) \subseteq InosOf(inodes', new)
                /\ InosOf(inodes', old) = {}]_vars

\* The inode numbers handed out and since removed from the table.
Released(im) == (2..(im.next_ino - 1)) \ DOMAIN im.ino_to_path

\* C20: inode allocation is monotonic and never reuses a number.  next_ino
\* never decreases, it is greater than every number in the table and every
\* number replied, and a number that unlink or rmdir released is not bound
\* to a path again.
InodesNeverReused ==
    [][/\ inodes'.next_ino >= inodes.next_ino
       /\ \A i \in DOMAIN inodes'.ino_to_path : i < inodes'.next_ino
       /\ \A q \in DOMAIN inodes'.path_to_ino : inodes'.path_to_ino[q] < inodes'.next_ino
       /\ reply'.ino < inodes'.next_ino
       /\ \A i \in Released(inodes) : i \notin DOMAIN inodes'.ino_to_path]_vars

\* The root's binding in the inode table.
RootBound(im) ==
    /\ HasIno(im, 1) /\ im.ino_to_path[1] = RootPath
    /\ RootPath \in DOMAIN im.path_to_ino /\ im.path_to_ino[RootPath] = 1

\* C21: in every reachable state of the inode table, inode 1 maps to "."
\* and "." maps to inode 1: no unlink, rmdir, rename or link changes or
\* removes the binding.
RootInodeImmutable == RootBound(inodes)

\* A rename that succeeded while a hard link's alias was in the table and
\* an inode had been forgotten.
RootKeptThroughRename ==
    /\ reply.op = "rename" /\ reply.err = "OK"
    /\ inodes.next_ino > 2
    /\ \E i \in 2..(inodes.next_ino - 1) : ~HasIno(inodes, i)
    /\ RootBound(inodes)

\* The step is a `get` that ended in an error before anything was written.
FailedGet == GetStep /\ sock'.err = "ERR"

\* The FID table has the keys 1..n and no path twice.
FidsWellFormed(lg) ==
    /\ DOMAIN lg.fid_map = 1..Cardinality(DOMAIN lg.fid_map)
    /\ \A f, g \in DOMAIN lg.fid_map : lg.fid_map[f] = lg.fid_map[g] => f = g

\* C22: a `get` whose compression fails ends in an error and leaves the
\* log as it was: nothing is written to the client, the action list and the
\* FID table are those of before the command, and the FID table still has
\* dense keys and one FID per path for the appends that follow.
CompressionFailureKeepsLog ==
    [][FailedGet =>
         /\ sent' = sent
         /\ log' = log
         /\ FidsWellFormed(log')]_vars

\* The step is a `t` command.
TrainStep == sock'.cmd = "train" /\ hist'.cmds = hist.cmds + 1

\* The training preconditions of the active mode: the number of samples,
\* their total size and their average size.
Trainable(ad, e) ==
    LET n == Len(ad.training_buffer)
        total == TotalBytes(ad.training_buffer)
        dev == e.dev_mode
    IN  /\ n >= (IF dev THEN 5 ELSE 50)
        /\ total >= (IF dev THEN 2 * 1024 ELSE 100 * 1024)
        /\ total \div n >= (IF dev THEN 50 ELSE 500)

\* C23: a `t` command replaces the encoder dictionary only when every
\* training precondition holds and training succeeds; when a precondition
\* fails or training fails, the dictionary and the training buffer are
\* left as they were.
TrainingFailureKeepsDictionary ==
    [][TrainStep =>
         /\ adaptive'.encoder_dict # adaptive.encoder_dict =>
                Trainable(adaptive, env) /\ sock'.err = "OK"
         /\ (~Trainable(adaptive, env) \/ sock'.err # "OK") =>
                /\ adaptive'.encoder_dict = adaptive.encoder_dict
                /\ adaptive'.training_buffer = adaptive.training_buffer]_vars

\* A first `t` trained a dictionary and trimmed the buffer to ten samples;
\* the training of a second `t` failed and the dictionary is still there.
SecondTrainingFailed ==
    /\ hist.cmds = 2
    /\ sock.cmd = "train" /\ sock.err = "ERR"
    /\ Len(adaptive.training_buffer) = 10
    /\ adaptive.encoder_dict = [id |-> adaptive.trainings, size |-> adaptive.encoder_dict.size]
    /\ adaptive.encoder_dict # NoDict

\* The step is an unknown command byte.
UnknownStep == sock'.cmd = "unknown" /\ hist'.cmds = hist.cmds + 1

\* C24: an unknown command byte is ignored.  The log, the dictionary and
\* the training buffer are unchanged, nothing is written to the client and
\* the connection stays open; the next command byte on the connection is
\* read, and a `get` that follows returns the log.
UnknownCommandIgnored ==
    [][/\ UnknownStep =>
            /\ log' = log
            /\ adaptive' = adaptive
            /\ sent' = sent
            /\ sock'.payload = NoPayload
            /\ Connected'
       /\ (sock.cmd = "unknown" /\ GetStep /\ GotPayload') =>
            /\ bincode_decode(sock'.payload.body.data) =
                    (IF env.prune THEN prune_log(log) ELSE log)
            /\ log' = EmptyLog]_vars

\* An unknown command byte was read while the log had actions.
UnknownReadWithLog ==
    /\ sock.cmd = "unknown"
    /\ log.actions # <<>>
    /\ Connected

\* C25: the socket thread never holds the log mutex while it writes to the
\* socket: when the length prefix and the payload of a `get` are to be
\* written, the log is serialised and cleared and its mutex is free for
\* the handlers.
NoLogLockWhileWriting ==
    proc.pc = "write" => logLock \in {0} \cup Workers

\* A handler took the log mutex and is pushing while the payload of a `get`
\* is still to be written.
HandlerLogsDuringWrite ==
    /\ proc.pc = "write"
    /\ \E t \in Workers : logLock = t /\ th[t].pc = "push"

\* C26: every `get` response is an 8-byte little-endian length L, then
\* exactly L bytes whose first byte is a mode header n, z or d; the
\* response for an empty log has the encoding of an empty log for its
\* payload, never the length zero.
GetFramed ==
    GotPayload =>
        /\ Len(sock.prefix) = 8
        /\ \A j \in 1..8 : sock.prefix[j] \in 0..255
        /\ from_le_bytes(sock.prefix) = payload_len(sock.payload)
        /\ sock.payload.header \in {"n", "z", "d"}
        /\ from_le_bytes(sock.prefix) > 0
        /\ Received = EmptyLog =>
              sock.payload.body.data = bincode_encode(EmptyLog) /\ sock.payload.body.data.len > 0

\* A `get` on an empty log was answered, after a payload that carried a
\* dictionary.
EmptyLogFramed ==
    /\ GotPayload
    /\ Received = EmptyLog
    /\ \E i \in DOMAIN sent : sent[i].header = "d"

\* The step is a run of the applier that got to the actions of its log.
ApplyStep == nops' = nops - 1 /\ applier'.stage = "apply"
\* The log of the applier's input, and its first n actions.
InputLog == bincode_decode(applier.input.body.data)
Cut(lg, n) == [lg EXCEPT !.actions = SubSeq(@, 1, n)]

\* C27: when the applier reaches an action that references a FID absent
\* from the FID table of its log, it aborts with "unknown file ID" at that
\* action: it makes no change to the target for it and attempts no later
\* action.
UnknownFidAborts ==
    [][ApplyStep =>
         \A i \in DOMAIN InputLog.actions :
            LET before == apply_log(Cut(InputLog, i - 1), fs)
            IN  (/\ before.err = "OK"
                 /\ ~(action_fids(InputLog.actions[i]) \subseteq DOMAIN InputLog.fid_map)) =>
                    /\ applier'.err = "Unknown file ID"
                    /\ applier'.applied = i - 1
                    /\ fs' = before.fs]_vars

\* A run applied its first action, changed the target and stopped at its
\* second, which names an unknown FID.
StoppedAtUnknownFid ==
    /\ applier.stage = "apply"
    /\ applier.err = "Unknown file ID"
    /\ applier.applied = 1
    /\ Len(InputLog.actions) = 2
    /\ fs \notin ApplyTargets

\* The actions that pass over a target that is not there.
Tolerant == {"Unlink", "Rmdir", "Chown", "Chmod"}

\* C28: during replay an Unlink, Rmdir, Chown or Chmod whose target path
\* does not exist is skipped and the applier goes on with the next action;
\* a Rename or Link whose source does not exist aborts the applier at that
\* action.
NotFoundTolerated ==
    [][ApplyStep =>
         \A i \in DOMAIN InputLog.actions :
            LET a == InputLog.actions[i]
                before == apply_log(Cut(InputLog, i - 1), fs)
                path(fid) == InputLog.fid_map[fid]
            IN  (before.err = "OK" /\ KnownFids(InputLog, a)) =>
                    /\ (a.type \in Tolerant /\ ~FsExists(before.fs, path(a.fid))) =>
                          /\ applier'.applied >= i
                          /\ i = Len(InputLog.actions) =>
                                applier'.err = "OK" /\ fs' = before.fs
                    /\ (a.type = "Rename" /\ ~FsExists(before.fs, path(a.from_fid))) =>
                          applier'.applied = i - 1 /\ applier'.err # "OK"
                    /\ (a.type = "Link" /\ ~FsExists(before.fs, path(a.source_fid))) =>
                          applier'.applied = i - 1 /\ applier'.err # "OK"]_vars

\* The step is a run of the applier on a payload that is not empty.
RunStep == nops' = nops - 1 /\ applier.input.header # ""

\* C29: no partial apply on a corrupt payload.  When the payload has an
\* unknown header, fails decompression or fails to decode as a log, the
\* applier ends with an error before it applies an action and the target
\* directory is as it was.
CorruptPayloadNotApplied ==
    [][RunStep =>
         /\ (\/ applier.input.header \notin {"n", "z", "d"}
             \/ applier.input.header = "d" /\ applier.input.inner # "z"
             \/ applier.input.header \in {"z", "d"} /\ applier.input.body.codec # "zstd"
             \/ applier.input.header = "n" /\ applier.input.body.codec # "raw"
             \/ applier.input.body.data.len < bincode_encode(InputLog).len
             \/ applier'.stage \in {"header", "decompress", "decode"}) =>
                /\ applier'.err # "OK"
                /\ applier'.stage \in {"header", "decompress", "decode"}
                /\ applier'.applied = 0
                /\ fs' = fs
         /\ applier'.stage = "apply" =>
                /\ applier.input.header \in {"n", "z", "d"}
                /\ applier'.applied <= Len(InputLog.actions)]_vars

\* A run ended at the decoding of a payload cut short whose log, had it
\* been applied, would have changed the target.
CorruptPayloadRefused ==
    /\ applier.stage = "decode"
    /\ applier.err # "OK"
    /\ apply_log(InputLog, fs).err = "OK"
    /\ apply_log(InputLog, fs).fs # fs

\* C30: the socket server runs beside the interceptor.  After startup the
\* file system is eventually mounted, and requests are served while the
\* listener accepts connections: starting the listener does not keep main
\* from reaching the mount.
MountReached == (proc.main = "listening") ~> Mounted

\* The locks thread t holds.
Held(t) ==
    {l \in {"inodes", "log", "dict"} :
        \/ l = "inodes" /\ inodesLock = t
        \/ l = "log" /\ logLock = t
        \/ l = "dict" /\ dictLock = t}

LockThreads == Workers \cup {SockThread}

\* The inode directory is never locked by a thread that holds the log.
InodesBeforeLog ==
    \A t \in LockThreads : (inodesLock' = t /\ inodesLock # t) => logLock # t

\* The dictionary lock is held alone.
DictLockAlone == \A t \in LockThreads : "dict" \in Held(t) => Held(t) = {"dict"}

\* A handler or a command is under way.
UnderWay == (\E t \in Workers : th[t].pc # "idle") \/ proc.pc # "read"

\* Whenever something is under way, some thread can take its next step.
DeadlockFree == UnderWay => ENABLED StepLock

\* C31: a thread that holds more than one lock took the inode directory
\* before the log; the dictionary lock is never held together with the log
\* lock or the inode-directory lock; and no interleaving of handlers with
\* get, clear and train reaches a deadlock.
LockDiscipline == [](DictLockAlone /\ DeadlockFree) /\ [][InodesBeforeLog]_vars

\* The critical section of a get ends with a payload to write; the writes
\* of a get fail.
SerializedStep == proc.pc # "write" /\ proc'.pc = "write"
WriteFailedStep == proc.pc = "write" /\ proc'.pc = "read" /\ sent' = sent

\* C32: get drains destructively.  When serialisation has succeeded the
\* log is empty before anything is written; when the write then fails the
\* log is not restored and nothing reaches the client, the command reports
\* an error, and the connection is served on.
DestructiveDrain ==
    [][/\ SerializedStep => (log' = EmptyLog /\ sent' = sent)
       /\ WriteFailedStep =>
            /\ log' = log
            /\ sock'.cmd = "get" /\ sock'.err \notin {"OK", None}
            /\ sock'.payload = NoPayload /\ sock'.prefix = <<>>
            /\ Mounted' /\ Connected']_vars

\* A batch was appended, the only command served is a get whose write
\* failed, and the batch is neither in the log nor with the client.
DrainLostOnWriteFailure ==
    /\ sock.cmd = "get" /\ sock.err = "EPIPE"
    /\ hist.cmds = 1
    /\ hist.app # <<>>
    /\ \A t \in Workers : th[t].pc = "idle"
    /\ log = EmptyLog
    /\ sent = <<>>

\* A successful training: the dictionary is a new one.
Trained == TrainStep /\ adaptive'.encoder_dict # adaptive.encoder_dict

\* The last n elements of a sequence, in their order.
MostRecent(buffer, n) == SubSeq(buffer, Len(buffer) - n + 1, Len(buffer))

\* After a successful training a buffer that exceeded Lmax holds the most
\* recent Lmax / 2 samples; a shorter one is left whole.
TrimKeepsMostRecent ==
    LET buffer == adaptive.training_buffer
        Lmax == IF env.dev_mode THEN 20 ELSE 200
    IN  Trained =>
            adaptive'.training_buffer =
                IF Len(buffer) > Lmax THEN MostRecent(buffer, Lmax \div 2) ELSE buffer

\* A candidate for the bound of the ring: twice Lmax.
BufferBound(e) == 2 * (IF e.dev_mode THEN 20 ELSE 200)

\* No step makes the buffer longer than the bound.
GrowthStopsAtBound ==
    Len(adaptive'.training_buffer)
        <= Max2(Len(adaptive.training_buffer), BufferBound(env))

\* C33: the training buffer is bounded: no get or train takes the number
\* of buffered samples over a fixed bound; and after a successful training
\* a buffer that exceeded Lmax holds exactly the most recent Lmax / 2
\* samples in their original order.
TrainingBufferBounded == [][GrowthStopsAtBound /\ TrimKeepsMostRecent]_vars

\* The requests that read, and those that do nothing.
ReadOnlyOps == {"lookup", "getattr", "readdir", "open", "read", "flush", "release"}

\* C34: lookup, getattr, readdir, open, read, flush and release append no
\* action and add no FID, whatever their outcome; open always succeeds,
\* with the file handle 0.
ReadOnlyLeavesLog ==
    [][reply'.op \in ReadOnlyOps =>
         /\ log' = log
         /\ reply'.op = "open" => (reply'.err = "OK" /\ reply'.fh = 0)]_vars

\* A read that failed, on a directory made before it, with the log as the
\* mkdir left it.
FailedReadWithLog ==
    /\ reply.op = "read" /\ reply.err = "EISDIR"
    /\ log.actions # <<>>

\* The keys of the path-to-inode map that name one backing path.
SameBackingPath(p, q) == get_relative_path(p) = get_relative_path(q)

\* C35: a backing path has one inode number however it was discovered:
\* for every directory, the root included, and every child name, readdir
\* of the directory and lookup(directory, name) intern the child under the
\* same key and report the same inode number, in either order.
LookupReaddirAgree ==
    \A p \in DOMAIN inodes.path_to_ino, q \in DOMAIN inodes.path_to_ino :
        SameBackingPath(p, q) => p = q /\ inodes.path_to_ino[p] = inodes.path_to_ino[q]

\* Every path of the path-to-inode map has its inode in the inode-to-path map.
Resolves(im) == \A p \in DOMAIN im.path_to_ino : HasIno(im, im.path_to_ino[p])

\* An unlink that succeeded on a name whose inode has another name.
UnlinkOfLinked ==
    LET r == reply'.req
        file_path == Join(get_path(inodes, r.parent), r.name)
    IN  /\ reply'.op = "unlink" /\ reply'.err = "OK"
        /\ file_path \in DOMAIN inodes.path_to_ino
        /\ \E q \in DOMAIN inodes.path_to_ino \ {file_path} :
               inodes.path_to_ino[q] = inodes.path_to_ino[file_path]

\* C36: removing one name of a hard-linked file keeps the inode usable:
\* after link(ino, new) and the unlink of either name, every path still in
\* the path-to-inode map has its inode in the inode-to-path map.
LinkSurvivesUnlink == [][(Resolves(inodes) /\ UnlinkOfLinked) => Resolves(inodes')]_vars

\* C37: in every reachable state of the inode directory no two distinct
\* inode numbers map to the same path in the inode-to-path map; after a
\* rename onto a destination that had an inode, the old inode of the
\* destination no longer resolves to the destination path.
InodeToPathInjective ==
    \A i \in DOMAIN inodes.ino_to_path, j \in DOMAIN inodes.ino_to_path :
        i # j => inodes.ino_to_path[i] # inodes.ino_to_path[j]

\* s is t with some of its elements deleted.
RECURSIVE IsSubsequence(_, _)
IsSubsequence(s, t) ==
    IF s = <<>> THEN TRUE
    ELSE IF t = <<>> THEN FALSE
    ELSE IF Head(s) = Head(t) THEN IsSubsequence(Tail(s), Tail(t))
    ELSE IsSubsequence(s, Tail(t))

\* C38: the pruner only deletes: the actions of the pruned log are a
\* subsequence of the actions of the log: the survivors are unmodified and
\* in their order, and no action is added.
PruneOnlyDeletes == [][Pruning => IsSubsequence(log'.actions, log.actions)]_vars

\* A log of three actions pruned to two different ones.
PrunedToTwo ==
    /\ Len(hist.pruned) = 1
    /\ Len(hist.pruned[1].actions) = 3
    /\ Len(log.actions) = 2
    /\ log.actions[1] # log.actions[2]

\* The applier runs on the payload of the last g.
DeliverStep == sock.cmd = "get" /\ sock'.cmd = "delivered"

\* C39: dictionary agreement: over any sequence of train and get commands
\* whose payloads reach the applier in order, each compressed payload is
\* decompressed with the dictionary the server compressed it with, or with
\* none when the server used none, and the decompression succeeds.
DictionaryAgreement ==
    [][DeliverStep =>
         LET input == applier'.input
         IN  input.header \in {"d", "z"} =>
                /\ dictionary_used(input, applier.cache) = input.body.dict
                /\ applier'.stage = "apply"]_vars

\* The applier held the first dictionary and has decompressed a payload
\* made with the second.
SecondDictionaryUsed ==
    /\ sock.cmd = "delivered"
    /\ applier.input.header = "d"
    /\ applier.input.body.dict = 2
    /\ applier.cache = 2
    /\ applier.stage = "apply"
    /\ Len(sent) = 2 /\ sent[1].zdict = 1

====
